---- MODULE Spec2Model ----
(***************************************************************************)
(* Relationship state machine of the takahe facade (src/takahe/utils.py)   *)
(* over the Follow and Block tables (src/takahe/models.py).                *)
(*                                                                         *)
(* Tables are sets of rows, each row carrying its primary key, so that a   *)
(* duplicated row is a state the model can express.  Unique constraints    *)
(* are checked where the database checks them: on insert.                  *)
(***************************************************************************)
EXTENDS Integers, FiniteSets, Sequences, TLC

\* ---------------------------------------------------------------- bounds
\* Highest primary key handed out to a Follow / Block row.
MaxFollowPk == 2
MaxBlockPk == 2
\* Largest from_states list passed to update_follow_state in SpecUFS.
MaxFromStates == 1

\* ------------------------------------------------------------- the data
\* Identity pks; identity 1 is a local account, identity 2 a remote one.
Identities == {1, 2}
IsLocal(i) == i = 1
Pairs == {p \in Identities \X Identities : p[1] # p[2]}
\* The request handlers that run concurrently in SpecConc.
Workers == {1, 2}

FollowStates ==
    {"unrequested", "pending_approval", "accepted", "accepting", "rejecting", "undone"}
BlockStates == {"new", "sent", "awaiting_expiry", "undone"}
ActiveBlockStates == {"new", "sent", "awaiting_expiry"}
\* The Follow states in which the relationship is requested or established.
ActiveFollowStates == {"unrequested", "pending_approval", "accepting", "accepted"}

\* The empty uri "" of a row just created; a set uri is the triple of the
\* f-string  source.actor_uri + "follow/{pk}/"  (or "block/{pk}/").
NoUri == <<>>
ActorUri(source, kind, pk) == <<source, kind, pk>>

VARIABLES
    follows,        \* table users_follow: set of Follow rows
    blocks,         \* table users_block: set of Block rows
    nextFollowPk,   \* next fresh Follow id
    nextBlockPk,    \* next auto-increment Block id
    result,         \* what the call that completed last returned or raised
    last,           \* the facade call that completed last
    pc,             \* per handler, the call in flight, or idle
    posts,          \* table activities_post: set of Post rows
    interactions,   \* table activities_postinteraction
    nextPostPk,     \* next fresh Post id
    nextInteractionPk,  \* next fresh PostInteraction id
    identities,     \* table users_identity (the resolver's view of it)
    domains,        \* table users_domain
    nextIdentityPk, \* next fresh Identity id
    net,            \* whether the last resolver call went to the network
    inbox           \* table users_inboxmessage, in the order of insertion

relVars == <<follows, blocks, nextFollowPk, nextBlockPk>>
postVars == <<posts, interactions, nextPostPk, nextInteractionPk>>
idVars == <<identities, domains, nextIdentityPk, net>>
vars == <<relVars, postVars, idVars, result, last, pc, inbox>>

Idle == [at |-> "idle", args |-> <<>>, snap |-> {}]

\* Outcome of a completed call: ret is the set holding the returned row
\* (empty for None), exc the exception that left the call ("" for none).
Done(ret, exc) == result' = [ret |-> ret, exc |-> exc]

\* The record of a completed call: rep tells whether it repeats the call
\* that completed before it (same operation and arguments).
Log(op, args) ==
    last' = [op |-> op, args |-> args,
             rep |-> (last.op = op /\ last.args = args)]

\* No call but InboxMessage.create_internal touches the inbox.
Record(op, args) == Log(op, args) /\ UNCHANGED inbox

\* A call served in one step.
Call(op, args) == Record(op, args) /\ UNCHANGED <<pc, postVars, idVars>>

\* ------------------------------------------------------ queries on Follow
FollowRows(F, source_pk, target_pk) ==
    {r \in F : r.source = source_pk /\ r.target = target_pk}

\* QuerySet.first(): the row of lowest pk, as a set of at most one row.
First(rows) == {r \in rows : \A q \in rows : r.pk <= q.pk}

\* Model.save(): UPDATE of the whole row by pk, INSERT when no row has it.
Save(T, row) == {r \in T : r.pk # row.pk} \cup {row}

\* unique_together = [("source", "target")], checked by the database on
\* insert: TRUE when a row source -> target may be inserted.
FollowUniqueOff(F, source_pk, target_pk) == TRUE

FollowUnique(F, source_pk, target_pk) ==
    FollowRows(F, source_pk, target_pk) = {}

\* ----------------------------------------------------- update_follow_state
UpdateGuardNoEmpty(row, from_states, to_state) ==
    /\ row.state \in from_states
    /\ row.state # to_state

\* The condition of the if statement, for the row .first() returned.
UpdateGuard(row, from_states, to_state) ==
    /\ (from_states = {} \/ row.state \in from_states)
    /\ row.state # to_state

\* The table after update_follow_state.
UpdateFollowTable(F, source_pk, target_pk, from_states, to_state) ==
    LET found == First(FollowRows(F, source_pk, target_pk))
    IN  IF found = {} THEN F
        ELSE LET follow == CHOOSE r \in found : TRUE
             IN  IF UpdateGuard(follow, from_states, to_state)
                 THEN Save(F, [follow EXCEPT !.state = to_state])
                 ELSE F

\* The value update_follow_state returns: the (possibly updated) object, or
\* None as the empty set.
UpdateFollowRet(F, source_pk, target_pk, from_states, to_state) ==
    LET found == First(FollowRows(F, source_pk, target_pk))
    IN  IF found = {} THEN {}
        ELSE LET follow == CHOOSE r \in found : TRUE
             IN  IF UpdateGuard(follow, from_states, to_state)
                 THEN {[follow EXCEPT !.state = to_state]}
                 ELSE {follow}

update_follow_state(source_pk, target_pk, from_states, to_state) ==
    /\ follows' = UpdateFollowTable(follows, source_pk, target_pk, from_states, to_state)
    /\ Done(UpdateFollowRet(follows, source_pk, target_pk, from_states, to_state),
                    "")
    /\ UNCHANGED <<blocks, nextFollowPk, nextBlockPk>>

\* ------------------------------------------------------------------ follow
\* The try branch: the existing row is put back to unrequested unless it is
\* accepted; every other field is saved as it was read.
FollowFoundBoostsReset(F, follow) ==
    IF follow.state # "accepted"
    THEN Save(F, [follow EXCEPT !.state = "unrequested", !.boosts = TRUE])
    ELSE F

FollowFound(F, follow) ==
    IF follow.state # "accepted"
    THEN Save(F, [follow EXCEPT !.state = "unrequested"])
    ELSE F

\* Follow.objects.create(...) of the except branch.
NewFollow(pk, source_pk, target_pk) ==
    [pk |-> pk, source |-> source_pk, target |-> target_pk,
     state |-> "unrequested", boosts |-> TRUE, uri |-> NoUri]

\* follow.uri = source.actor_uri + f"follow/{follow.pk}/"; follow.save()
FollowSetUri(F, row) ==
    Save(F, [row EXCEPT !.uri = ActorUri(row.source, "follow", row.pk)])

\* follow() run without interleaving.
follow(source_pk, target_pk) ==
    LET rows == FollowRows(follows, source_pk, target_pk)
    IN  /\ \/ /\ Cardinality(rows) = 1
              /\ follows' = FollowFound(follows, CHOOSE r \in rows : TRUE)
              /\ Done({}, "")
              /\ UNCHANGED nextFollowPk
           \/ /\ Cardinality(rows) > 1
              /\ Done({},
                              "MultipleObjectsReturned")
              /\ UNCHANGED <<follows, nextFollowPk>>
           \/ /\ rows = {}
              /\ IF FollowUnique(follows, source_pk, target_pk)
                 THEN /\ nextFollowPk <= MaxFollowPk
                      /\ follows' = FollowSetUri(follows,
                                        NewFollow(nextFollowPk, source_pk, target_pk))
                      /\ nextFollowPk' = nextFollowPk + 1
                      /\ Done({}, "")
                 ELSE /\ Done({},
                                      "IntegrityError")
                      /\ UNCHANGED <<follows, nextFollowPk>>
        /\ UNCHANGED <<blocks, nextBlockPk>>

\* ------------------------------------------- unfollow / accept / reject
unfollow(source_pk, target_pk) ==
    /\ follows' = UpdateFollowTable(follows, source_pk, target_pk, {}, "undone")
    /\ Done({}, "")
    /\ UNCHANGED <<blocks, nextFollowPk, nextBlockPk>>

accept_pending_only(source_pk, target_pk) ==
    /\ follows' = UpdateFollowTable(follows, source_pk, target_pk,
                                    {"pending_approval"}, "accepting")
    /\ Done({}, "")
    /\ UNCHANGED <<blocks, nextFollowPk, nextBlockPk>>

accept_follow_request(source_pk, target_pk) ==
    /\ follows' = UpdateFollowTable(follows, source_pk, target_pk, {}, "accepting")
    /\ Done({}, "")
    /\ UNCHANGED <<blocks, nextFollowPk, nextBlockPk>>

reject_follow_request(source_pk, target_pk) ==
    /\ follows' = UpdateFollowTable(follows, source_pk, target_pk, {}, "rejecting")
    /\ Done({}, "")
    /\ UNCHANGED <<blocks, nextFollowPk, nextBlockPk>>

\* ------------------------------------------------------- queries on Block
BlockRows(B, source_pk, target_pk, is_mute) ==
    {r \in B : r.source = source_pk /\ r.target = target_pk /\ r.mute = is_mute}

\* Block.Meta declares db_table only: no unique_together, so the database
\* accepts the insert of any Block row.
BlockUnique(B, source_pk, target_pk, is_mute) == TRUE

\* ----------------------------------------------------------- block_or_mute
BlockOp(is_mute) == IF is_mute THEN "mute" ELSE "block"
UndoOp(is_mute) == IF is_mute THEN "unmute" ELSE "unblock"

\* if block.state != "new" or not block.uri: ... block.save()
BlockEnsureUri(B, block) ==
    IF block.state # "new" \/ block.uri = NoUri
    THEN Save(B, [block EXCEPT !.state = "new",
                               !.uri = ActorUri(block.source, "block", block.pk)])
    ELSE B

\* update_or_create found one row: defaults are applied and saved.
BlockUpdated(B, block) ==
    LET b == [block EXCEPT !.state = "new"]
    IN  BlockEnsureUri(Save(B, b), b)

\* update_or_create found none: the row is created with the defaults.
NewBlock(pk, source_pk, target_pk, is_mute) ==
    [pk |-> pk, source |-> source_pk, target |-> target_pk, mute |-> is_mute,
     state |-> "new", uri |-> NoUri]

BlockCreated(B, block) == BlockEnsureUri(B \cup {block}, block)

\* if not is_mute: unfollow(source, target); reject_follow_request(target, source)
TeardownNoUnfollow(F, source_pk, target_pk, is_mute) ==
    IF is_mute THEN F
    ELSE UpdateFollowTable(F, target_pk, source_pk, {}, "rejecting")

Teardown(F, source_pk, target_pk, is_mute) ==
    IF is_mute THEN F
    ELSE UpdateFollowTable(UpdateFollowTable(F, source_pk, target_pk, {}, "undone"),
                           target_pk, source_pk, {}, "rejecting")

\* The row block_or_mute returns, read back from the table it left.
BlockRet(B, pk) == {r \in B : r.pk = pk}

\* block_or_mute() run without interleaving.
block_or_mute(source_pk, target_pk, is_mute) ==
    LET rows == BlockRows(blocks, source_pk, target_pk, is_mute)
        op   == BlockOp(is_mute)
        args == <<source_pk, target_pk>>
    IN  \/ /\ ~IsLocal(source_pk)
           /\ Done({}, "ValueError")
           /\ UNCHANGED <<follows, blocks, nextFollowPk, nextBlockPk>>
        \/ /\ IsLocal(source_pk)
           /\ Cardinality(rows) > 1
           /\ Done({}, "MultipleObjectsReturned")
           /\ UNCHANGED <<follows, blocks, nextFollowPk, nextBlockPk>>
        \/ /\ IsLocal(source_pk)
           /\ Cardinality(rows) = 1
           /\ LET existing == CHOOSE r \in rows : TRUE
              IN  /\ blocks' = BlockUpdated(blocks, existing)
                  /\ Done(BlockRet(blocks', existing.pk), "")
           /\ follows' = Teardown(follows, source_pk, target_pk, is_mute)
           /\ UNCHANGED <<nextFollowPk, nextBlockPk>>
        \/ /\ IsLocal(source_pk)
           /\ rows = {}
           /\ nextBlockPk <= MaxBlockPk
           /\ BlockUnique(blocks, source_pk, target_pk, is_mute)
           /\ blocks' = BlockCreated(blocks,
                            NewBlock(nextBlockPk, source_pk, target_pk, is_mute))
           /\ nextBlockPk' = nextBlockPk + 1
           /\ Done(BlockRet(blocks', nextBlockPk), "")
           /\ follows' = Teardown(follows, source_pk, target_pk, is_mute)
           /\ UNCHANGED nextFollowPk

\* Block.objects.filter(source, target, mute).update(state="undone")
UndoRowsAnyMute(B, source_pk, target_pk, is_mute) ==
    {r \in B : r.source = source_pk /\ r.target = target_pk}

UndoRows(B, source_pk, target_pk, is_mute) ==
    BlockRows(B, source_pk, target_pk, is_mute)

undo_block_or_mute(source_pk, target_pk, is_mute) ==
    LET rows == UndoRows(blocks, source_pk, target_pk, is_mute)
    IN  /\ blocks' = (blocks \ rows) \cup {[r EXCEPT !.state = "undone"] : r \in rows}
        /\ Done({}, "")
        /\ UNCHANGED <<follows, nextFollowPk, nextBlockPk>>

block(source_pk, target_pk) == block_or_mute(source_pk, target_pk, FALSE)
unblock(source_pk, target_pk) == undo_block_or_mute(source_pk, target_pk, FALSE)
mute(source_pk, target_pk) == block_or_mute(source_pk, target_pk, TRUE)
unmute(source_pk, target_pk) == undo_block_or_mute(source_pk, target_pk, TRUE)

\* _force_state_cycle(), the stand-in of the unit tests for the scheduler.
force_state_cycle ==
    /\ follows' = {[r EXCEPT !.state = "accepted"] :
                     r \in {q \in follows :
                              q.state \notin {"rejecting", "undone", "pending_removal"}}}
    /\ blocks' = {r \in {IF q.state = "new" THEN [q EXCEPT !.state = "sent"] ELSE q :
                           q \in blocks} : r.state = "sent"}
    /\ Done({}, "")
    /\ UNCHANGED <<nextFollowPk, nextBlockPk>>

\* ---------------------------------------------------------- specification
NoCall == [op |-> "", args |-> <<>>, rep |-> FALSE]
NoResult == [ret |-> {}, exc |-> ""]

\* The tables a specification does not use are empty and stay so.
NoPostTables ==
    /\ posts = {}
    /\ interactions = {}
    /\ nextPostPk = 1
    /\ nextInteractionPk = 1

NoIdentityTables ==
    /\ identities = {}
    /\ domains = {}
    /\ nextIdentityPk = 1
    /\ net = FALSE

NoFollowTables ==
    /\ follows = {}
    /\ blocks = {}
    /\ nextFollowPk = 1
    /\ nextBlockPk = 1

\* A Follow row found in the table at start: the table is shared with the
\* takahe server, which creates the rows of remote followers and owns the
\* states pending_approval and accepted and the boosts preference.
\* Their ids are older, hence lower, than every id handed out from now on.
StoredFollow(p, state, boosts) ==
    [pk |-> p[1] - 2, source |-> p[1], target |-> p[2], state |-> state,
     boosts |-> boosts, uri |-> ActorUri(p[1], "follow", p[1] - 2)]

StoredFollowTables ==
    {{StoredFollow(p, f[p][1], f[p][2]) : p \in D} :
        D \in SUBSET Pairs, f \in [Pairs -> FollowStates \X BOOLEAN]}

Init ==
    /\ follows \in StoredFollowTables
    /\ blocks = {}
    /\ nextFollowPk = 1
    /\ nextBlockPk = 1
    /\ result = NoResult
    /\ last = NoCall /\ inbox = <<>>
    /\ pc = [w \in Workers |-> Idle]
    /\ NoPostTables
    /\ NoIdentityTables

\* The facade calls, one at a time.
Next ==
    \/ \E p \in Pairs : follow(p[1], p[2]) /\ Call("follow", p)
    \/ \E p \in Pairs : unfollow(p[1], p[2]) /\ Call("unfollow", p)
    \/ \E p \in Pairs : accept_follow_request(p[1], p[2])
                            /\ Call("accept_follow_request", p)
    \/ \E p \in Pairs : reject_follow_request(p[1], p[2])
                            /\ Call("reject_follow_request", p)
    \/ \E p \in Pairs : block(p[1], p[2]) /\ Call("block", p)
    \/ \E p \in Pairs : unblock(p[1], p[2]) /\ Call("unblock", p)
    \/ \E p \in Pairs : mute(p[1], p[2]) /\ Call("mute", p)
    \/ \E p \in Pairs : unmute(p[1], p[2]) /\ Call("unmute", p)
    \/ force_state_cycle /\ Call("_force_state_cycle", <<>>)

Spec == Init /\ [][Next]_vars

\* ------------------------------------------------- concurrent handlers
\* Two request handlers run follow() and block_or_mute() statement by
\* statement.  A handler between two statements holds what it read (snap).
\* The single-statement writers (update_follow_state and its callers,
\* undo_block_or_mute) take one step.

At(w, label) == pc[w].at = label
Goto(w, label, args, snap) ==
    /\ pc' = [pc EXCEPT ![w] = [at |-> label, args |-> args, snap |-> snap]]
    /\ UNCHANGED <<postVars, idVars>>
Return(w) ==
    /\ pc' = [pc EXCEPT ![w] = Idle]
    /\ UNCHANGED <<postVars, idVars>>

\* follow(), line 206: Follow.objects.get(source_id, target_id)
FollowGet(w, source_pk, target_pk) ==
    LET rows == FollowRows(follows, source_pk, target_pk)
        args == <<source_pk, target_pk>>
    IN  /\ At(w, "idle")
        /\ \/ /\ Cardinality(rows) = 1
              /\ Goto(w, "follow_found", args, rows)
              /\ UNCHANGED <<result, last, inbox>>
           \/ /\ Cardinality(rows) > 1
              /\ Return(w)
              /\ Done({}, "MultipleObjectsReturned")
              /\ Record("follow", args)
           \/ /\ rows = {}
              /\ Goto(w, "follow_create", args, {})
              /\ UNCHANGED <<result, last, inbox>>
        /\ UNCHANGED <<follows, blocks, nextFollowPk, nextBlockPk>>

\* follow(), lines 207-209: the row that was read is saved back.
FollowSave(w) ==
    /\ At(w, "follow_found")
    /\ follows' = FollowFound(follows, CHOOSE r \in pc[w].snap : TRUE)
    /\ Return(w)
    /\ Done({}, "")
    /\ Record("follow", pc[w].args)
    /\ UNCHANGED <<blocks, nextFollowPk, nextBlockPk>>

\* follow(), lines 211-218: the insert; a duplicate (source, target) raises
\* IntegrityError, which follow() does not catch.
FollowCreate(w) ==
    LET source_pk == pc[w].args[1]
        target_pk == pc[w].args[2]
    IN  /\ At(w, "follow_create")
        /\ IF FollowUnique(follows, source_pk, target_pk)
           THEN /\ nextFollowPk <= MaxFollowPk
                /\ follows' = follows \cup {NewFollow(nextFollowPk, source_pk, target_pk)}
                /\ nextFollowPk' = nextFollowPk + 1
                /\ Goto(w, "follow_uri", pc[w].args,
                        {NewFollow(nextFollowPk, source_pk, target_pk)})
                /\ UNCHANGED <<result, last, inbox>>
           ELSE /\ Return(w)
                /\ Done({}, "IntegrityError")
                /\ Record("follow", pc[w].args)
                /\ UNCHANGED <<follows, nextFollowPk>>
        /\ UNCHANGED <<blocks, nextBlockPk>>

\* follow(), lines 219-220: the uri is set on the object created and saved.
FollowUri(w) ==
    /\ At(w, "follow_uri")
    /\ follows' = FollowSetUri(follows, CHOOSE r \in pc[w].snap : TRUE)
    /\ Return(w)
    /\ Done({}, "")
    /\ Record("follow", pc[w].args)
    /\ UNCHANGED <<blocks, nextFollowPk, nextBlockPk>>

\* block_or_mute() up to the SELECT ... FOR UPDATE of update_or_create.  A
\* row found is locked until the commit, so the rest of the transaction is
\* part of this step; when no row is found nothing is locked and the handler
\* goes on to the insert.
BlockGet(w, source_pk, target_pk, is_mute) ==
    LET rows == BlockRows(blocks, source_pk, target_pk, is_mute)
    IN  /\ At(w, "idle")
        /\ \/ /\ ~IsLocal(source_pk) \/ rows # {}
              /\ block_or_mute(source_pk, target_pk, is_mute)
              /\ Call(BlockOp(is_mute), <<source_pk, target_pk>>)
           \/ /\ IsLocal(source_pk)
              /\ rows = {}
              /\ Goto(w, "block_create", <<source_pk, target_pk, is_mute>>, {})
              /\ UNCHANGED <<follows, blocks, nextFollowPk, nextBlockPk, result, last, inbox>>

\* block_or_mute(): the insert of update_or_create and the rest of the
\* transaction, made visible by its commit.
BlockCreate(w) ==
    LET source_pk == pc[w].args[1]
        target_pk == pc[w].args[2]
        is_mute   == pc[w].args[3]
    IN  /\ At(w, "block_create")
        /\ IF BlockUnique(blocks, source_pk, target_pk, is_mute)
           THEN /\ nextBlockPk <= MaxBlockPk
                /\ blocks' = BlockCreated(blocks,
                                NewBlock(nextBlockPk, source_pk, target_pk, is_mute))
                /\ nextBlockPk' = nextBlockPk + 1
                /\ follows' = Teardown(follows, source_pk, target_pk, is_mute)
                /\ Done(BlockRet(blocks', nextBlockPk), "")
           ELSE \* get_or_create catches the IntegrityError and reads again
                /\ LET existing == CHOOSE r \in BlockRows(blocks, source_pk, target_pk, is_mute) : TRUE
                   IN  /\ blocks' = BlockUpdated(blocks, existing)
                       /\ Done(BlockRet(blocks', existing.pk), "")
                /\ follows' = Teardown(follows, source_pk, target_pk, is_mute)
                /\ UNCHANGED nextBlockPk
        /\ Return(w)
        /\ Record(BlockOp(is_mute), <<source_pk, target_pk>>)
        /\ UNCHANGED nextFollowPk

InitConc ==
    /\ follows = {}
    /\ blocks = {}
    /\ nextFollowPk = 1
    /\ nextBlockPk = 1
    /\ result = NoResult
    /\ last = NoCall /\ inbox = <<>>
    /\ pc = [w \in Workers |-> Idle]
    /\ NoPostTables
    /\ NoIdentityTables

\* The handlers of SpecConc serve calls of the local identity on the remote one.
ConcPairs == {p \in Pairs : IsLocal(p[1])}

NextConc ==
    \/ \E w \in Workers, p \in ConcPairs : FollowGet(w, p[1], p[2])
    \/ \E w \in Workers : FollowSave(w)
    \/ \E w \in Workers : FollowCreate(w)
    \/ \E w \in Workers : FollowUri(w)
    \/ \E w \in Workers, p \in ConcPairs, is_mute \in BOOLEAN : BlockGet(w, p[1], p[2], is_mute)
    \/ \E w \in Workers : BlockCreate(w)
    \/ \E p \in ConcPairs : unfollow(p[1], p[2]) /\ Call("unfollow", p)
    \/ \E p \in ConcPairs : accept_follow_request(p[1], p[2])
                                /\ Call("accept_follow_request", p)
    \/ \E p \in ConcPairs : reject_follow_request(p[1], p[2])
                                /\ Call("reject_follow_request", p)
    \/ \E p \in ConcPairs, is_mute \in BOOLEAN :
          undo_block_or_mute(p[1], p[2], is_mute) /\ Call(UndoOp(is_mute), p)

SpecConc == InitConc /\ [][NextConc]_vars

\* Types of the tables.
TypeOK ==
    /\ \A r \in follows : r.state \in FollowStates /\ r.boosts \in BOOLEAN
    /\ \A r \in blocks : r.state \in BlockStates /\ r.mute \in BOOLEAN

\* ------------------------------------------ update_follow_state on its own
\* update_follow_state called with every from_states list of at most
\* MaxFromStates states and every to_state, on the tables of Init.
FromStateSets == {S \in SUBSET FollowStates : Cardinality(S) <= MaxFromStates}

NextUFS ==
    \E p \in Pairs, from_states \in FromStateSets, to_state \in FollowStates :
        /\ update_follow_state(p[1], p[2], from_states, to_state)
        /\ Call("update_follow_state", <<p[1], p[2], from_states, to_state>>)

SpecUFS == Init /\ [][NextUFS]_vars

\* ================================================================ posts
\* Post lifecycle and interaction ledger: Takahe.post, Post.create_local,
\* Post.edit_local, Takahe.delete_mark, Takahe.interact_post,
\* Takahe.uninteract_post, Post.calculate_stats and the two queries.

\* ----------------------------------------------------------------- bounds
\* Highest primary key handed out to a PostInteraction row by the calls run
\* one at a time, and the primary keys handed out to Post rows.
MaxInteractionPk == 1
NewPostPks == {1}

InteractionTypes == {"like", "boost"}
InteractionStates == {"new", "fanned_out", "undone"}
\* state__in=["new", "fanned_out"]
ActiveInteractionStates == {"new", "fanned_out"}
PostStates == {"new", "fanned_out", "edited", "deleted"}

\* stats = models.JSONField(blank=True, null=True): null is the empty set,
\* a dict the set holding its record.
NoStats == {}

\* Post.Visibilities, and the content of a post: its text and the handles
\* the parser finds in it.
Visibilities == {"public", "local_only", "unlisted", "followers", "mentioned"}
Content(text, handles) == [text |-> text, handles |-> handles]
PlainContent == Content("c0", {})
Stats(likes, boosts, replies) ==
    {[likes |-> likes, boosts |-> boosts, replies |-> replies]}

\* A step of a post specification leaves the other tables alone.
CallP(op, args) ==
    Record(op, args) /\ UNCHANGED <<pc, relVars, idVars>>

PostRows(P, post_pk) == {r \in P : r.pk = post_pk}

\* PostInteraction.objects.filter(type=, identity_id=, post=)
InteractionRowsNotUndone(I, type, identity_pk, post_pk) ==
    {r \in I : /\ r.type = type /\ r.identity = identity_pk /\ r.post = post_pk
               /\ r.state # "undone"}

InteractionRows(I, type, identity_pk, post_pk) ==
    {r \in I : r.type = type /\ r.identity = identity_pk /\ r.post = post_pk}

\* PostInteraction.Meta declares db_table only: the database accepts the
\* insert of any interaction row.
InteractionUnique(I, type, identity_pk, post_pk) == TRUE

CountInteractionsAnyState(I, post_pk, type) ==
    Cardinality({r \in I : r.post = post_pk /\ r.type = type})

\* self.interactions.filter(type=, state__in=["new", "fanned_out"]).count()
CountInteractions(I, post_pk, type) ==
    Cardinality({r \in I : /\ r.post = post_pk /\ r.type = type
                           /\ r.state \in ActiveInteractionStates})

\* Post.objects.filter(in_reply_to=self.object_uri).count()
CountReplies(P, object_uri) ==
    Cardinality({q \in P : q.in_reply_to = object_uri})

\* The dict calculate_stats builds for a post.
CalculateStats(P, I, post) ==
    Stats(CountInteractions(I, post.pk, "like"),
          CountInteractions(I, post.pk, "boost"),
          CountReplies(P, post.object_uri))

\* The row Model.save() leaves for a Post object: every declared column is
\* written from the object; mentions is a table of its own, and the
\* scheduler's state_next_attempt and state_locked_until are columns Post
\* does not declare, so these stay as stored.
Written(P, post) ==
    IF \E r \in P : r.pk = post.pk
    THEN LET stored == CHOOSE r \in P : r.pk = post.pk
         IN  [post EXCEPT !.mentions = stored.mentions,
                          !.state_next_attempt = stored.state_next_attempt,
                          !.state_locked_until = stored.state_locked_until]
    ELSE post

\* calculate_stats(save=True) on the post object a handler holds: the object
\* is saved whole, with the stats just counted.
SaveStats(P, I, post) ==
    Save(P, Written(P, [post EXCEPT !.stats = CalculateStats(P, I, post)]))

\* ------------------------------------------------------------ create_local
\* The row of Post.objects.create(...) after object_uri is assigned and the
\* post saved; backdated by more than two days it is fanned_out at once.
\* No statement of create_local gives the new post its stats.
NewPost(pk, author, reply_to, old) ==
    [pk |-> pk, author |-> author,
     state |-> IF old THEN "fanned_out" ELSE "new",
     object_uri |-> ActorUri(author, "posts", pk),
     in_reply_to |-> IF reply_to = {} THEN NoUri
                     ELSE (CHOOSE r \in reply_to : TRUE).object_uri,
     stats |-> NoStats,
     content |-> PlainContent, visibility |-> "public", mentions |-> {},
     edited |-> FALSE, state_next_attempt |-> FALSE, state_locked_until |-> FALSE]

\* if reply_to.visibility == local_only: visibility = local_only
ReplyVisibilityAsAsked(visibility, reply_to) == visibility
ReplyVisibility(visibility, reply_to) ==
    IF \E r \in reply_to : r.visibility = "local_only" THEN "local_only"
    ELSE visibility

\* The transaction of create_local once mentions_from_content has returned
\* the identities mentioned: the parent's author is added to them, the row
\* is created and the parent's stats are counted again.
CreatePost(author, content, visibility, reply_to, old, mentioned) ==
    /\ nextPostPk \in NewPostPks
    /\ LET post == [NewPost(nextPostPk, author, reply_to, old) EXCEPT
                       !.content = content,
                       !.visibility = ReplyVisibility(visibility, reply_to),
                       !.mentions = mentioned \cup {r.author : r \in reply_to}]
           P1   == posts \cup {post}
       IN  /\ posts' = IF reply_to = {} THEN P1
                       ELSE SaveStats(P1, interactions, CHOOSE r \in reply_to : TRUE)
           /\ Done({post}, "")
    /\ nextPostPk' = nextPostPk + 1
    /\ UNCHANGED <<interactions, nextInteractionPk>>

\* create_local(author, ..., reply_to, published): reply_to is the set
\* holding the parent Post object, empty for None.
\* The content here mentions nobody.
create_local(author, content, visibility, reply_to, old) ==
    /\ content.handles = {}
    /\ CreatePost(author, content, visibility, reply_to, old, {})

\* The row edit_local leaves: the fields of the edit, then state = "edited".
\* state_next_attempt and state_locked_until are set to None on the object,
\* but Post declares no field of these names, so save() writes neither
\* column.
Edited(post, content, visibility) ==
    [post EXCEPT !.content = content, !.visibility = visibility,
                 !.edited = TRUE, !.mentions = {}, !.state = "edited"]

edit_local(post, content, visibility) ==
    /\ content.handles = {}
    /\ posts' = Save(posts, Edited(post, content, visibility))
    /\ Done({Edited(post, content, visibility)}, "")
    /\ UNCHANGED <<interactions, nextPostPk, nextInteractionPk>>

\* Post.objects.filter(author=identity, pk=post_pk).first() if post_pk
PostOfAuthor(P, author_pk, post_pk) ==
    IF post_pk # 0
    THEN First({r \in P : r.author = author_pk /\ r.pk = post_pk})
    ELSE {}

\* Takahe.post(author_pk, ..., content, visibility, ..., post_pk, post_time):
\* post_pk = 0 stands for None.
post(author_pk, content, visibility, post_pk, old) ==
    LET found == PostOfAuthor(posts, author_pk, post_pk)
    IN  IF found # {}
        THEN edit_local(CHOOSE r \in found : TRUE, content, visibility)
        ELSE create_local(author_pk, content, visibility, {}, old)

\* Takahe.delete_mark(mark) for a mark whose shelfmember carries post_id.
delete_mark(post_pk) ==
    /\ posts' = {IF r.pk = post_pk THEN [r EXCEPT !.state = "deleted"] ELSE r :
                   r \in posts}
    /\ Done({}, "")
    /\ UNCHANGED <<interactions, nextPostPk, nextInteractionPk>>

\* ----------------------------------------------------------- interactions
NewInteraction(pk, type, identity_pk, post_pk) ==
    [pk |-> pk, type |-> type, identity |-> identity_pk, post |-> post_pk,
     state |-> "new"]

ReviveFlip(I, interaction) ==
    Save(I, [interaction EXCEPT !.state =
                 IF @ \in ActiveInteractionStates THEN "undone" ELSE "new"])

\* if interaction.state not in ["new", "fanned_out"]: state = "new"; save()
Revive(I, interaction) ==
    IF interaction.state \notin ActiveInteractionStates
    THEN Save(I, [interaction EXCEPT !.state = "new"])
    ELSE I

\* The row interact_post returns.
Revived(interaction) ==
    IF interaction.state \notin ActiveInteractionStates
    THEN [interaction EXCEPT !.state = "new"]
    ELSE interaction

\* Takahe.interact_post(post_pk, identity_pk, type), run alone.
interact_post(post_pk, identity_pk, type) ==
    LET found == First(PostRows(posts, post_pk))
        rows  == InteractionRows(interactions, type, identity_pk, post_pk)
    IN  IF found = {}
        THEN /\ Done({}, "")
             /\ UNCHANGED postVars
        ELSE IF Cardinality(rows) > 1
        THEN /\ Done({}, "MultipleObjectsReturned")
             /\ UNCHANGED postVars
        ELSE LET thePost == CHOOSE r \in found : TRUE
             IN  IF rows # {}
                 THEN LET interaction == CHOOSE r \in rows : TRUE
                          I1 == Revive(interactions, interaction)
                      IN  /\ interactions' = I1
                          /\ posts' = SaveStats(posts, I1, thePost)
                          /\ Done({Revived(interaction)}, "")
                          /\ UNCHANGED <<nextPostPk, nextInteractionPk>>
                 ELSE /\ nextInteractionPk <= MaxInteractionPk
                      /\ InteractionUnique(interactions, type, identity_pk, post_pk)
                      /\ LET interaction == NewInteraction(nextInteractionPk, type,
                                                           identity_pk, post_pk)
                             I1 == interactions \cup {interaction}
                         IN  /\ interactions' = I1
                             /\ posts' = SaveStats(posts, I1, thePost)
                             /\ Done({interaction}, "")
                      /\ nextInteractionPk' = nextInteractionPk + 1
                      /\ UNCHANGED nextPostPk

\* for interaction in PostInteraction.objects.filter(...): state = "undone"
Undo(I, rows) ==
    {IF r \in rows THEN [r EXCEPT !.state = "undone"] ELSE r : r \in I}

\* Takahe.uninteract_post(post_pk, identity_pk, type), run alone.
uninteract_post(post_pk, identity_pk, type) ==
    LET found == First(PostRows(posts, post_pk))
        rows  == InteractionRows(interactions, type, identity_pk, post_pk)
    IN  /\ Done({}, "")
        /\ IF found = {}
           THEN UNCHANGED postVars
           ELSE LET I1 == Undo(interactions, rows)
                IN  /\ interactions' = I1
                    /\ posts' = SaveStats(posts, I1, CHOOSE r \in found : TRUE)
                    /\ UNCHANGED <<nextPostPk, nextInteractionPk>>

like_post(post_pk, identity_pk) == interact_post(post_pk, identity_pk, "like")

unlike_post(post_pk, identity_pk) == uninteract_post(post_pk, identity_pk, "like")

\* Takahe.get_user_interaction: the first matching row, empty for None.
get_user_interaction(post_pk, identity_pk, type) ==
    IF First(PostRows(posts, post_pk)) = {} THEN {}
    ELSE First(InteractionRows(interactions, type, identity_pk, post_pk))

PostLikedByAnyState(post_pk, identity_pk) ==
    get_user_interaction(post_pk, identity_pk, "like") # {}

\* interaction is not None and interaction.state in ["new", "fanned_out"]
PostLikedBy(post_pk, identity_pk) ==
    \E r \in get_user_interaction(post_pk, identity_pk, "like") :
        r.state \in ActiveInteractionStates

\* post.stats or {}: the dict returned, as the set of its (key, value) pairs.
Items(stats) ==
    UNION {{<<"likes", d.likes>>, <<"boosts", d.boosts>>, <<"replies", d.replies>>} :
             d \in stats}

\* Takahe.get_post_stats(post_pk)
GetPostStats(post_pk) ==
    LET found == First(PostRows(posts, post_pk))
    IN  IF found = {} THEN {} ELSE Items((CHOOSE r \in found : TRUE).stats)

\* ------------------------------------------------------- sequential posts
\* Rows the database may hold when the calls start: nothing, or a post of
\* identity 1 already fanned out, alone or with a like of identity 2 that the
\* stator has fanned out or that was undone; its stats as calculate_stats
\* last wrote them.
StoredPost(likes) ==
    [pk |-> -1, author |-> 1, state |-> "fanned_out",
     object_uri |-> ActorUri(1, "posts", -1), in_reply_to |-> NoUri,
     stats |-> Stats(likes, 0, 0),
     content |-> PlainContent, visibility |-> "public", mentions |-> {},
     edited |-> FALSE, state_next_attempt |-> FALSE, state_locked_until |-> FALSE]

StoredLike(state) ==
    [pk |-> -1, type |-> "like", identity |-> 2, post |-> -1, state |-> state]

InitPost ==
    /\ NoFollowTables /\ NoIdentityTables
    /\ result = NoResult /\ last = NoCall /\ inbox = <<>>
    /\ pc = [w \in Workers |-> Idle]
    /\ nextPostPk = 1
    /\ nextInteractionPk = 1
    /\ \/ posts = {} /\ interactions = {}
       \/ posts = {StoredPost(0)} /\ interactions = {}
       \/ posts = {StoredPost(0)} /\ interactions = {StoredLike("undone")}
       \/ posts = {StoredPost(1)} /\ interactions = {StoredLike("fanned_out")}

\* Posts are written by local identities, with post_time absent or recent.
\* A call names a post of the table or a primary key no post has.
Authors == {i \in Identities : IsLocal(i)}
Backdated == {FALSE}
PostPks == {r.pk : r \in posts} \cup {nextPostPk}

NextPost ==
    \/ \E a \in Authors, old \in Backdated :
           post(a, PlainContent, "public", 0, old) /\ CallP("post", <<a, 0, old>>)
    \/ \E a \in Authors, r \in posts, old \in Backdated :
           create_local(a, PlainContent, "public", {r}, old)
           /\ CallP("create_local", <<a, r.pk, old>>)
    \/ \E k \in PostPks :
           delete_mark(k) /\ CallP("delete_mark", <<k>>)
    \/ \E k \in PostPks, i \in Identities, t \in InteractionTypes :
           interact_post(k, i, t) /\ CallP("interact_post", <<k, i, t>>)
    \/ \E k \in PostPks, i \in Identities, t \in InteractionTypes :
           uninteract_post(k, i, t) /\ CallP("uninteract_post", <<k, i, t>>)

SpecPost == InitPost /\ [][NextPost]_vars

\* ------------------------------------------------------ replies and edits
\* A post of identity 1 is stored, in any state and of any visibility, the
\* scheduler having set its next attempt or not.  It is replied to, edited
\* through Takahe.post and deleted.
StoredPostIn(state, visibility, attempt) ==
    [StoredPost(0) EXCEPT !.state = state, !.visibility = visibility,
                          !.state_next_attempt = attempt]

InitEdit ==
    /\ NoFollowTables /\ NoIdentityTables
    /\ result = NoResult /\ last = NoCall /\ inbox = <<>>
    /\ pc = [w \in Workers |-> Idle]
    /\ nextPostPk = 1
    /\ nextInteractionPk = 1
    /\ \E state \in PostStates, visibility \in Visibilities, attempt \in BOOLEAN :
           posts = {StoredPostIn(state, visibility, attempt)}
    /\ interactions = {}

Contents == {PlainContent, Content("c1", {})}
AskedVisibilities == {"public", "local_only", "followers"}

NextEdit ==
    \/ \E a \in Authors, r \in posts, content \in Contents,
          visibility \in AskedVisibilities :
           /\ create_local(a, content, visibility, {r}, FALSE)
           /\ CallP("create_local", <<a, content, visibility, r.pk>>)
    \/ \E a \in Identities, k \in PostPks, content \in Contents,
          visibility \in AskedVisibilities :
           /\ post(a, content, visibility, k, FALSE)
           /\ CallP("post", <<a, content, visibility, k>>)
    \/ \E k \in PostPks : delete_mark(k) /\ CallP("delete_mark", <<k>>)

SpecEdit == InitEdit /\ [][NextEdit]_vars

\* ------------------------------------------------------- concurrent likes
\* interact_post and uninteract_post run by two request handlers at once.
\* Neither opens a transaction or takes a lock, so each statement is a step:
\* the reads at the head (the post, the interaction rows), the write of the
\* interaction, the counting queries of calculate_stats, and post.save(),
\* which writes back the Post object loaded at the head with the counted
\* stats.  pc[w].snap holds the objects the handler has in hand.

\* Highest primary key handed out to a PostInteraction row by the handlers.
MaxLikePk == 2

GotoP(w, label, args, snap) ==
    /\ pc' = [pc EXCEPT ![w] = [at |-> label, args |-> args, snap |-> snap]]
    /\ UNCHANGED <<relVars, idVars, result, last, inbox>>

ReturnP(w, op, ret, exc) ==
    /\ pc' = [pc EXCEPT ![w] = Idle]
    /\ Done(ret, exc)
    /\ Record(op, pc[w].args)
    /\ UNCHANGED <<relVars, idVars>>

InHand(op, thePost, rows, stats) ==
    [op |-> op, post |-> thePost, rows |-> rows, stats |-> stats]

\* interact_post, lines 425-433: the post is loaded and get_or_create looks
\* the interaction up.
InteractBegin(w, post_pk, identity_pk, type) ==
    LET found == First(PostRows(posts, post_pk))
        rows  == InteractionRows(interactions, type, identity_pk, post_pk)
        args  == <<post_pk, identity_pk, type>>
        hand  == InHand("interact_post", found, rows, NoStats)
    IN  /\ At(w, "idle")
        /\ IF found = {}
           THEN /\ pc' = pc
                /\ Done({}, "") /\ Record("interact_post", args)
                /\ UNCHANGED <<relVars, idVars>>
           ELSE IF Cardinality(rows) > 1
           THEN /\ pc' = pc
                /\ Done({}, "MultipleObjectsReturned")
                /\ Record("interact_post", args)
                /\ UNCHANGED <<relVars, idVars>>
           ELSE IF rows # {}
           THEN GotoP(w, "interact_found", args, hand)
           ELSE GotoP(w, "interact_create", args, hand)
        /\ UNCHANGED postVars

\* get_or_create, no row found: the row is inserted.
InteractCreate(w) ==
    /\ At(w, "interact_create")
    /\ nextInteractionPk <= MaxLikePk
    /\ InteractionUnique(interactions, pc[w].args[3], pc[w].args[2], pc[w].args[1])
    /\ LET interaction == NewInteraction(nextInteractionPk, pc[w].args[3],
                                         pc[w].args[2], pc[w].args[1])
       IN  /\ interactions' = interactions \cup {interaction}
           /\ GotoP(w, "count", pc[w].args,
                    [pc[w].snap EXCEPT !.rows = {interaction}])
    /\ nextInteractionPk' = nextInteractionPk + 1
    /\ UNCHANGED <<posts, nextPostPk>>

\* interact_post, lines 434-436, on the row that was read.
InteractRevive(w) ==
    /\ At(w, "interact_found")
    /\ LET interaction == CHOOSE r \in pc[w].snap.rows : TRUE
       IN  /\ interactions' = Revive(interactions, interaction)
           /\ GotoP(w, "count", pc[w].args,
                    [pc[w].snap EXCEPT !.rows = {Revived(interaction)}])
    /\ UNCHANGED <<posts, nextPostPk, nextInteractionPk>>

\* uninteract_post, lines 442-449: the post is loaded and the rows filtered.
UninteractBegin(w, post_pk, identity_pk, type) ==
    LET found == First(PostRows(posts, post_pk))
        rows  == InteractionRows(interactions, type, identity_pk, post_pk)
        args  == <<post_pk, identity_pk, type>>
    IN  /\ At(w, "idle")
        /\ IF found = {}
           THEN /\ pc' = pc
                /\ Done({}, "") /\ Record("uninteract_post", args)
                /\ UNCHANGED <<relVars, idVars>>
           ELSE GotoP(w, "undo_rows", args,
                      InHand("uninteract_post", found, rows, NoStats))
        /\ UNCHANGED postVars

\* uninteract_post, lines 450-452: each row read is saved as undone.
UninteractRows(w) ==
    /\ At(w, "undo_rows")
    /\ interactions' = Undo(interactions,
                            {r \in interactions :
                               \E h \in pc[w].snap.rows : h.pk = r.pk})
    /\ GotoP(w, "count", pc[w].args, [pc[w].snap EXCEPT !.rows = {}])
    /\ UNCHANGED <<posts, nextPostPk, nextInteractionPk>>

\* calculate_stats, lines 1047-1057: the counting queries.
StatsCount(w) ==
    /\ At(w, "count")
    /\ GotoP(w, "save", pc[w].args,
             [pc[w].snap EXCEPT !.stats =
                  CalculateStats(posts, interactions,
                                 CHOOSE r \in pc[w].snap.post : TRUE)])
    /\ UNCHANGED postVars

\* calculate_stats, lines 1058-1059: self.save(), then the handler returns.
StatsSave(w) ==
    /\ At(w, "save")
    /\ posts' = Save(posts, Written(posts, [(CHOOSE r \in pc[w].snap.post : TRUE)
                                               EXCEPT !.stats = pc[w].snap.stats]))
    /\ ReturnP(w, pc[w].snap.op, pc[w].snap.rows, "")
    /\ UNCHANGED <<interactions, nextPostPk, nextInteractionPk>>

\* One post is stored, liked by nobody.
InitLike ==
    /\ NoFollowTables /\ NoIdentityTables
    /\ result = NoResult /\ last = NoCall /\ inbox = <<>>
    /\ pc = [w \in Workers |-> Idle]
    /\ nextPostPk = 1
    /\ nextInteractionPk = 1
    /\ posts = {StoredPost(0)}
    /\ interactions = {}

\* Two handlers serving like_post calls of any identity.
NextLike ==
    \/ \E w \in Workers, r \in posts, i \in Identities :
           InteractBegin(w, r.pk, i, "like")
    \/ \E w \in Workers : InteractCreate(w)
    \/ \E w \in Workers : InteractRevive(w)
    \/ \E w \in Workers : StatsCount(w)
    \/ \E w \in Workers : StatsSave(w)

SpecLike == InitLike /\ [][NextLike]_vars

\* Two handlers, each serving the like_post and unlike_post calls of its own
\* identity.
NextLikeUnlike ==
    \/ \E w \in Workers, r \in posts : InteractBegin(w, r.pk, w, "like")
    \/ \E w \in Workers : InteractCreate(w)
    \/ \E w \in Workers : InteractRevive(w)
    \/ \E w \in Workers, r \in posts : UninteractBegin(w, r.pk, w, "like")
    \/ \E w \in Workers : UninteractRows(w)
    \/ \E w \in Workers : StatsCount(w)
    \/ \E w \in Workers : StatsSave(w)

SpecLikeUnlike == InitLike /\ [][NextLikeUnlike]_vars

AllIdle == \A w \in Workers : pc[w] = Idle

\* A handler serving the like_post and unlike_post calls of identity 2 on
\* the stored post while its author edits it through Takahe.post or deletes
\* it; edit_local runs in a transaction and delete_mark is one UPDATE, so
\* each is a step.
NextLikeEdit ==
    \/ \E r \in posts : InteractBegin(1, r.pk, 2, "like")
    \/ InteractCreate(1)
    \/ InteractRevive(1)
    \/ \E r \in posts : UninteractBegin(1, r.pk, 2, "like")
    \/ UninteractRows(1)
    \/ StatsCount(1)
    \/ StatsSave(1)
    \/ \E r \in posts, content \in Contents :
           /\ post(r.author, content, "public", r.pk, FALSE)
           /\ CallP("post", <<r.author, content, "public", r.pk>>)
    \/ \E r \in posts : delete_mark(r.pk) /\ CallP("delete_mark", <<r.pk>>)

SpecLikeEdit == InitLike /\ [][NextLikeEdit]_vars

\* ============================================================= resolver
\* Identity.by_username_and_domain on the Identity and Domain tables.  The
\* answer of the remote server (Identity.fetch_webfinger) is an input of the
\* call; net tells whether the call sent the request.

\* Handles of the calls: usernames in two letter cases, one malformed.
Usernames == {"bob", "Bob", "rob"}
AtUsernames == {"@bob"}
DomainNames == {"l.example", "r.example", "R.example"}
ActorUris == {"U1", "U2"}

\* str.lower() and username__iexact on the handles above.
Lower(str) ==
    CASE str = "Bob" -> "bob"
      [] str = "R.example" -> "r.example"
      [] OTHER -> str

IExact(a, b) == Lower(a) = Lower(b)

\* username.startswith("@")
StartsWithAt(username) == username \in AtUsernames

\* The domain argument: a name (str) or a Domain record of the table.
DomainName(name) == [kind |-> "name", domain |-> name, local |-> FALSE]
DomainRecord(d) == [kind |-> "record", domain |-> d.domain, local |-> d.local]
DomainArgs == {DomainName(n) : n \in DomainNames} \cup {DomainRecord(d) : d \in domains}

\* What fetch_webfinger returns: (None, None), a raised ValueError, or
\* (actor_uri, handle) with handle = username@domain.
NoAnswer == [kind |-> "none", actor_uri |-> "", username |-> "", domain |-> ""]
ErrorAnswer == [kind |-> "error", actor_uri |-> "", username |-> "", domain |-> ""]
WebfingerAnswers ==
    {NoAnswer, ErrorAnswer} \cup
    {[kind |-> "found", actor_uri |-> a, username |-> u, domain |-> "r.example"] :
       a \in ActorUris, u \in {"bob", "Bob"}}

\* A step of the resolver specification leaves the other tables alone.
CallR(op, args) ==
    Record(op, args) /\ UNCHANGED <<pc, relVars, postVars>>

\* local = domain.local for a Domain record, else the passed flag.
EffectiveLocal(domain, local) ==
    IF domain.kind = "record" THEN domain.local ELSE local

\* domain = domain.domain for a Domain record, else domain.lower().
EffectiveDomain(domain) ==
    IF domain.kind = "record" THEN domain.domain ELSE Lower(domain.domain)

\* cls.objects.get(username__iexact=, domain_id=[, local=True])
Matches(I, username, domain, local) ==
    {r \in I : /\ IExact(r.username, username)
               /\ r.domain = domain
               /\ (local => r.local)}

FetchWhenAsked(fetch, local) == fetch

\* if fetch and not local
FetchAllowed(fetch, local) == fetch /\ ~local

\* unique_together = [("username", "domain")] and actor_uri unique.
IdentityUnique(I, row) ==
    /\ \A r \in I : ~(r.username = row.username /\ r.domain = row.domain)
    /\ \A r \in I : r.actor_uri # row.actor_uri

\* Domain.get_remote_domain(domain): get_or_create(domain=lower, local=False).
\* The table after the call; the primary key rejects a second row of the name.
RemoteDomainFails(D, name) ==
    \E d \in D : d.domain = Lower(name) /\ d.local

GetRemoteDomain(D, name) ==
    IF \E d \in D : d.domain = Lower(name) THEN D
    ELSE D \cup {[domain |-> Lower(name), local |-> FALSE, service_domain |-> ""]}

ByUriNone(I, actor_uri) == {}

\* cls.objects.get(actor_uri=actor_uri)
ByUri(I, actor_uri) == {r \in I : r.actor_uri = actor_uri}

\* The row of cls.objects.create(actor_uri, username, domain_id, local=False):
\* a remote identity, its key fields null.
NewIdentity(pk, actor_uri, username, domain) ==
    [pk |-> pk, actor_uri |-> actor_uri, username |-> username,
     domain |-> domain, local |-> FALSE,
     private_key |-> "", public_key |-> ""]

\* domain_instance: the Domain record passed by the caller, else
\* Domain.get_remote_domain of the domain part of the webfinger subject.
DomainInstance(domain, wf) ==
    IF domain.kind = "record" THEN domain.domain ELSE Lower(wf.domain)

\* Lines 570-588: the answer of fetch_webfinger, the lookup by actor_uri, then
\* the create.  An answer of kind "error" is the ValueError fetch_webfinger
\* raises, of kind "crash" another exception raised while it reads the body.
Discover(domain, wf) ==
    LET byUri == ByUri(identities, wf.actor_uri)
        row   == NewIdentity(nextIdentityPk, wf.actor_uri, wf.username,
                             DomainInstance(domain, wf))
    IN  /\ net' = TRUE
        /\ IF wf.kind = "none"
           THEN Done({}, "") /\ UNCHANGED <<identities, domains, nextIdentityPk>>
           ELSE IF wf.kind = "error"
           THEN Done({}, "ValueError")
                /\ UNCHANGED <<identities, domains, nextIdentityPk>>
           ELSE IF wf.kind = "crash"
           THEN Done({}, "TypeError")
                /\ UNCHANGED <<identities, domains, nextIdentityPk>>
           ELSE IF byUri # {}
           THEN Done(byUri, "") /\ UNCHANGED <<identities, domains, nextIdentityPk>>
           ELSE IF domain.kind = "name" /\ RemoteDomainFails(domains, wf.domain)
           THEN Done({}, "IntegrityError")
                /\ UNCHANGED <<identities, domains, nextIdentityPk>>
           ELSE /\ domains' = IF domain.kind = "name"
                              THEN GetRemoteDomain(domains, wf.domain)
                              ELSE domains
                /\ IF IdentityUnique(identities, row)
                   THEN /\ identities' = identities \cup {row}
                        /\ nextIdentityPk' = nextIdentityPk + 1
                        /\ Done({row}, "")
                   ELSE /\ Done({}, "IntegrityError")
                        /\ UNCHANGED <<identities, nextIdentityPk>>

\* Identity.by_username_and_domain(username, domain, fetch, local), with the
\* answers fetch_webfinger may give to this call.
Resolve(username, domain, fetch, local, Answers) ==
    LET effLocal == EffectiveLocal(domain, local)
        rows == Matches(identities, username, EffectiveDomain(domain), effLocal)
        quiet == /\ net' = FALSE
                 /\ UNCHANGED <<identities, domains, nextIdentityPk>>
    IN  IF StartsWithAt(username)
        THEN Done({}, "ValueError") /\ quiet
        ELSE IF Cardinality(rows) = 1
        THEN Done(rows, "") /\ quiet
        ELSE IF Cardinality(rows) > 1
        THEN Done({}, "MultipleObjectsReturned") /\ quiet
        ELSE IF FetchAllowed(fetch, effLocal)
        THEN \E wf \in Answers : Discover(domain, wf)
        ELSE Done({}, "") /\ quiet

by_username_and_domain(username, domain, fetch, local) ==
    Resolve(username, domain, fetch, local, WebfingerAnswers)

\* The local identity the registration of the first account has stored.
StoredIdentity ==
    [pk |-> -1, actor_uri |-> "UL", username |-> "bob",
     domain |-> "l.example", local |-> TRUE,
     private_key |-> "K", public_key |-> "K"]

\* The tables at start: the local domain with one local identity.
InitResolve ==
    /\ NoFollowTables /\ NoPostTables
    /\ result = NoResult /\ last = NoCall /\ inbox = <<>>
    /\ pc = [w \in Workers |-> Idle]
    /\ domains = {[domain |-> "l.example", local |-> TRUE, service_domain |-> ""]}
    /\ identities = {StoredIdentity}
    /\ nextIdentityPk = 1
    /\ net = FALSE

NextResolve ==
    \E username \in Usernames \cup AtUsernames, domain \in DomainArgs,
       fetch \in BOOLEAN, local \in BOOLEAN :
        /\ by_username_and_domain(username, domain, fetch, local)
        /\ CallR("by_username_and_domain", <<username, domain, fetch, local>>)

SpecResolve == InitResolve /\ [][NextResolve]_vars

\* ------------------------------------------------------------ discovery
\* Identity.fetch_webfinger_url and Identity.fetch_webfinger: what the two
\* requests of a discovery meet is an input of the call.
\*   hostmeta: "template"      200 with an lrdd Link template
\*             "default"       any other response
\*             "request_error" httpx.RequestError (timeout, connection
\*                             failure, a certificate error httpx wraps)
\*             "parse_error"   etree.ParseError
\*             "ssl_error"     ssl.SSLCertVerificationError raised as such
\*   failure:  "" when the webfinger request got a response, else "timeout",
\*             "connect" (httpx.RequestError) or "ssl"
\*   status:   the status of the response
\*   body:     "actor"          JSON with subject and a self link
\*             "html"           not JSON
\*             "not_found_text" not JSON, holding the words "not found"
\*             "no_subject", "no_links"  JSON object without that key
\*             "no_self_link"   JSON object whose links hold no self link
\*             "not_object"     JSON that is no object (a list)
ToleratedStatuses == {400, 401, 403, 404, 406, 410}
OtherStatuses == {429, 500}
SubjectDomains == {"r.example", "s.example"}
SubjectActors == {"U1", "UL"}

Reply(hostmeta, failure, status, body, actor_uri, username, domain) ==
    [hostmeta |-> hostmeta, failure |-> failure, status |-> status,
     body |-> body, actor_uri |-> actor_uri, username |-> username,
     domain |-> domain]

NoReply == Reply("", "", 0, "", "", "", "")

\* The webfinger request alone, after a host-meta request that gave no
\* template.
WebfingerReplies(hostmeta) ==
    {Reply(hostmeta, f, 0, "", "", "", "") : f \in {"timeout", "connect", "ssl"}}
    \cup {Reply(hostmeta, "", st, "", "", "", "") :
            st \in ToleratedStatuses \cup OtherStatuses}
    \cup {Reply(hostmeta, "", 200, b, "", "", "") :
            b \in {"html", "not_found_text", "no_subject", "no_links",
                   "no_self_link", "not_object"}}
    \cup {Reply(hostmeta, "", 200, "actor", a, "bob", d) :
            a \in SubjectActors, d \in SubjectDomains}

\* With the other outcomes of the host-meta request: a webfinger request that
\* times out, is answered 404, or is answered with an actor.
Replies ==
    WebfingerReplies("default")
    \cup {Reply(h, "timeout", 0, "", "", "", "") :
            h \in {"template", "request_error", "parse_error", "ssl_error"}}
    \cup {Reply(h, "", 404, "", "", "", "") :
            h \in {"template", "request_error", "parse_error", "ssl_error"}}
    \cup {Reply(h, "", 200, "actor", "U1", "bob", "r.example") :
            h \in {"template", "request_error", "parse_error", "ssl_error"}}

CrashAnswer == [kind |-> "crash", actor_uri |-> "", username |-> "", domain |-> ""]

\* fetch_webfinger_url: TRUE when it returns a URL (the template or the
\* default), FALSE when the certificate error leaves it.
HasWebfingerUrl(reply) == reply.hostmeta # "ssl_error"

StatusErrorWith410(reply) ==
    reply.status < 500 /\ reply.status \notin (ToleratedStatuses \ {410})

\* response and response.status_code < 500 and response.status_code not in
\* [400, 401, 403, 404, 406, 410]
StatusError(reply) ==
    reply.status < 500 /\ reply.status \notin ToleratedStatuses

\* Lines 504-526: response.json() and the walk over subject and links.
ReadBody(reply) ==
    CASE reply.body = "actor" ->
             [kind |-> "found", actor_uri |-> reply.actor_uri,
              username |-> reply.username, domain |-> reply.domain]
      [] reply.body = "not_found_text" -> NoAnswer
      [] reply.body = "html" -> ErrorAnswer
      [] reply.body \in {"no_subject", "no_links", "no_self_link"} -> NoAnswer
      [] OTHER -> CrashAnswer

\* Identity.fetch_webfinger(handle)
FetchWebfinger(reply) ==
    IF ~HasWebfingerUrl(reply) THEN NoAnswer
    ELSE IF reply.failure # "" THEN NoAnswer
    ELSE IF reply.status # 200
    THEN IF StatusError(reply) THEN ErrorAnswer ELSE NoAnswer
    ELSE ReadBody(reply)

\* Domain.get_remote_domain(domain) as a call.
get_remote_domain(name) ==
    /\ IF RemoteDomainFails(domains, name)
       THEN Done({}, "IntegrityError") /\ domains' = domains
       ELSE /\ domains' = GetRemoteDomain(domains, name)
            /\ Done({d \in GetRemoteDomain(domains, name) : d.domain = Lower(name)}, "")
    /\ net' = FALSE
    /\ UNCHANGED <<identities, nextIdentityPk>>

\* TRUE when the call reaches fetch_webfinger.
Fetches(username, domain, fetch, local) ==
    /\ ~StartsWithAt(username)
    /\ Matches(identities, username, EffectiveDomain(domain),
               EffectiveLocal(domain, local)) = {}
    /\ FetchAllowed(fetch, EffectiveLocal(domain, local))

\* The usernames asked for: one the subjects carry, one they do not.
DiscoverUsernames == {"bob", "rob"}

\* The resolver with the network under it, and the registry call.  A call
\* that sends no request is recorded with NoReply.
NextDiscover ==
    \/ \E username \in DiscoverUsernames, domain \in DomainArgs,
          fetch \in BOOLEAN, local \in BOOLEAN :
           \E reply \in IF Fetches(username, domain, fetch, local)
                        THEN Replies ELSE {NoReply} :
               /\ Resolve(username, domain, fetch, local, {FetchWebfinger(reply)})
               /\ CallR("by_username_and_domain",
                        <<username, domain, fetch, local, reply>>)
    \/ \E name \in DomainNames \cup SubjectDomains :
           get_remote_domain(name) /\ CallR("get_remote_domain", <<name>>)

SpecDiscover == InitResolve /\ [][NextDiscover]_vars

\* --------------------------------------------------- concurrent resolver
\* by_username_and_domain(username, domain, fetch=True) run by two handlers
\* at once.  The method opens no transaction: the lookup, the discovery with
\* the lookup by actor_uri, and the create are steps.  The remote server
\* answers every handle asked here with the same actor, or not at all.
GotoR(w, label, args, snap) ==
    /\ pc' = [pc EXCEPT ![w] = [at |-> label, args |-> args, snap |-> snap]]
    /\ UNCHANGED <<relVars, postVars, result, last, inbox>>

ReturnR(w, ret, exc) ==
    /\ pc' = [pc EXCEPT ![w] = Idle]
    /\ Done(ret, exc)
    /\ Record("by_username_and_domain", pc[w].args)
    /\ UNCHANGED <<relVars, postVars>>

RaceAnswers ==
    {NoAnswer,
     [kind |-> "found", actor_uri |-> "U1", username |-> "bob",
      domain |-> "r.example"]}

\* Lines 557-570: the lookup by handle.
ResolveGet(w, username, domain) ==
    LET rows == Matches(identities, username, EffectiveDomain(domain), FALSE)
        args == <<username, domain>>
    IN  /\ At(w, "idle")
        /\ IF rows # {}
           THEN /\ pc' = pc
                /\ Done(IF Cardinality(rows) = 1 THEN rows ELSE {},
                        IF Cardinality(rows) = 1 THEN ""
                        ELSE "MultipleObjectsReturned")
                /\ Record("by_username_and_domain", args)
                /\ UNCHANGED <<relVars, postVars>>
           ELSE GotoR(w, "fetch", args, {})
        /\ UNCHANGED idVars

\* Lines 571-578: fetch_webfinger, then get(actor_uri=).
ResolveFetch(w) ==
    /\ At(w, "fetch")
    /\ \E wf \in RaceAnswers :
           IF wf.kind = "none" THEN ReturnR(w, {}, "")
           ELSE IF ByUri(identities, wf.actor_uri) # {}
           THEN ReturnR(w, ByUri(identities, wf.actor_uri), "")
           ELSE GotoR(w, "create", pc[w].args, {wf})
    /\ net' = TRUE
    /\ UNCHANGED <<identities, domains, nextIdentityPk>>

\* Lines 580-588: get_remote_domain and the create, which nothing guards.
ResolveCreate(w) ==
    /\ At(w, "create")
    /\ LET wf  == CHOOSE a \in pc[w].snap : TRUE
           row == NewIdentity(nextIdentityPk, wf.actor_uri, wf.username,
                              DomainInstance(pc[w].args[2], wf))
       IN  /\ domains' = IF pc[w].args[2].kind = "name"
                          THEN GetRemoteDomain(domains, wf.domain)
                          ELSE domains
           /\ IF IdentityUnique(identities, row)
              THEN /\ identities' = identities \cup {row}
                   /\ nextIdentityPk' = nextIdentityPk + 1
                   /\ ReturnR(w, {row}, "")
              ELSE /\ ReturnR(w, {}, "IntegrityError")
                   /\ UNCHANGED <<identities, nextIdentityPk>>
    /\ net' = net

NextResolveRace ==
    \/ \E w \in Workers, username \in DiscoverUsernames,
          name \in {"r.example", "R.example"} :
           ResolveGet(w, username, DomainName(name))
    \/ \E w \in Workers : ResolveFetch(w)
    \/ \E w \in Workers : ResolveCreate(w)

SpecResolveRace == InitResolve /\ [][NextResolveRace]_vars

\* ------------------------------------------------------------- key pairs
\* Takahe.init_identity_for_local_user(u) creates the Identity of a new
\* account and then calls generate_keypair on it: two statements, each saved
\* on its own, under no transaction.  Remote identities come from the
\* resolver.
Accounts == {"bob", "amy", "ann"}

LocalActorUri(username) ==
    CASE username = "bob" -> "UL"
      [] username = "amy" -> "UA"
      [] OTHER -> "UN"

NewLocalIdentity(pk, username) ==
    [NewIdentity(pk, LocalActorUri(username), username, "l.example")
        EXCEPT !.local = TRUE]

\* Identity.generate_keypair: the table after the call and its exception.
KeypairRefused(row) == ~row.local

WithKeypair(I, pk) ==
    {IF r.pk = pk /\ ~KeypairRefused(r)
     THEN [r EXCEPT !.private_key = "K", !.public_key = "K"]
     ELSE r : r \in I}

CallK(op, args) == Record(op, args) /\ UNCHANGED <<relVars, postVars>>

generate_keypair(pk) ==
    LET row == CHOOSE r \in identities : r.pk = pk
    IN  /\ \A w \in Workers : ~(At(w, "keypair") /\ pk \in pc[w].snap)
        /\ identities' = WithKeypair(identities, pk)
        /\ Done(IF KeypairRefused(row) THEN {}
                ELSE {r \in identities' : r.pk = pk},
                IF KeypairRefused(row) THEN "ValueError" ELSE "")
        /\ CallK("generate_keypair", <<pk>>)
        /\ UNCHANGED <<domains, nextIdentityPk, net, pc>>

\* utils.py 87-97: the lookup and the create.
InitIdentityCreate(w, username) ==
    LET existing == {r \in identities : r.username = username /\ r.local}
        row == NewLocalIdentity(nextIdentityPk, username)
    IN  /\ At(w, "idle")
        /\ IF existing # {}
           THEN /\ Done(First(existing), "")
                /\ CallK("init_identity_for_local_user", <<username>>)
                /\ UNCHANGED <<identities, nextIdentityPk, pc>>
           ELSE IF IdentityUnique(identities, row)
           THEN /\ identities' = identities \cup {row}
                /\ nextIdentityPk' = nextIdentityPk + 1
                /\ pc' = [pc EXCEPT ![w] = [at |-> "keypair",
                                            args |-> <<username>>,
                                            snap |-> {row.pk}]]
                /\ UNCHANGED <<relVars, postVars, result, last, inbox>>
           ELSE /\ Done({}, "IntegrityError")
                /\ CallK("init_identity_for_local_user", <<username>>)
                /\ UNCHANGED <<identities, nextIdentityPk, pc>>
        /\ UNCHANGED <<domains, net>>

\* utils.py 98: identity.generate_keypair().
InitIdentityKeypair(w) ==
    /\ At(w, "keypair")
    /\ identities' = WithKeypair(identities, CHOOSE pk \in pc[w].snap : TRUE)
    /\ pc' = [pc EXCEPT ![w] = Idle]
    /\ Done({r \in identities' : r.pk \in pc[w].snap}, "")
    /\ CallK("init_identity_for_local_user", pc[w].args)
    /\ UNCHANGED <<domains, nextIdentityPk, net>>

NextKeys ==
    \/ \E w \in Workers, username \in Accounts : InitIdentityCreate(w, username)
    \/ \E w \in Workers : InitIdentityKeypair(w)
    \/ \E r \in identities : generate_keypair(r.pk)
    \/ \E username \in DiscoverUsernames :
           /\ Resolve(username, DomainName("r.example"), TRUE, FALSE, RaceAnswers)
           /\ Record("by_username_and_domain", <<username>>)
           /\ UNCHANGED <<relVars, postVars, pc>>

SpecKeys == InitResolve /\ [][NextKeys]_vars

\* ------------------------------------------------------------- snowflake
\* Snowflake ids are Python integers of up to 64 bits; a number is the
\* sequence of its bits, lowest first, and the operators below are the
\* integer operations the class uses, bit by bit.
W == 64
EPOCH == 1641020400
TimeBits == 41
RandBits == 19
TypeBitCount == 3

Positions == 1..W

\* n < 2^31 as a number of W bits.
FromInt(n) ==
    [i \in Positions |-> IF i > 31 THEN 0 ELSE (n \div (2 ^ (i - 1))) % 2]

Shl(a, k) == [i \in Positions |-> IF i <= k THEN 0 ELSE a[i - k]]
Shr(a, k) == [i \in Positions |-> IF i + k <= W THEN a[i + k] ELSE 0]
Or(a, b) == [i \in Positions |-> IF a[i] = 1 \/ b[i] = 1 THEN 1 ELSE 0]
And(a, b) == [i \in Positions |-> IF a[i] = 1 /\ b[i] = 1 THEN 1 ELSE 0]
Not(a) == [i \in Positions |-> 1 - a[i]]

RECURSIVE LessFrom(_, _, _)
LessFrom(a, b, i) ==
    IF i = 0 THEN FALSE
    ELSE IF a[i] # b[i] THEN a[i] < b[i]
    ELSE LessFrom(a, b, i - 1)

Less(a, b) == LessFrom(a, b, W)

\* Carries(a, b, <<>>)[i] is the carry into bit i of a + b.
RECURSIVE Carries(_, _, _)
Carries(a, b, acc) ==
    LET i == Len(acc)
    IN  IF i = W THEN acc
        ELSE Carries(a, b, Append(acc, IF i = 0 THEN 0
                                       ELSE (a[i] + b[i] + acc[i]) \div 2))

Add(a, b) ==
    LET carry == Carries(a, b, <<>>)
    IN  [i \in Positions |-> (a[i] + b[i] + carry[i]) % 2]

\* -b and a - b in two's complement.
Neg(b) == Add(Not(b), FromInt(1))
Sub(a, b) == Add(a, Neg(b))

\* x * 1000 = x * 1024 - x * 16 - x * 8.
Mul1000(a) == Sub(Shl(a, 10), Add(Shl(a, 4), Shl(a, 3)))

EpochMs == Mul1000(FromInt(EPOCH))
MinusEpochMs == Neg(EpochMs)

\* time.time() as whole milliseconds and the microseconds past them.
Time(ms, us) == [ms |-> ms, us |-> us]

\* int((time.time() - cls.EPOCH) * 1000), for a time not before EPOCH.
Now(time) == Add(time.ms, MinusEpochMs)

\* (now << 22) | (rand_seq << 3) | type_id
ComposeShort(now, rand_seq, type_id) ==
    Or(Or(Shl(now, RandBits + TypeBitCount - 1),
          Shl(FromInt(rand_seq), TypeBitCount)),
       FromInt(type_id))
Compose(now, rand_seq, type_id) ==
    Or(Or(Shl(now, RandBits + TypeBitCount), Shl(FromInt(rand_seq), TypeBitCount)),
       FromInt(type_id))

NotASnowflake(snowflake) ==
    Less(snowflake, Shl(FromInt(1), RandBits + TypeBitCount))

\* snowflake & 0b111
TypeOfLowTwoBits(snowflake) == And(snowflake, FromInt(3))
TypeOf(snowflake) == And(snowflake, FromInt(7))

\* ((snowflake >> 22) / 1000) + cls.EPOCH
TimeOf(snowflake) ==
    Time(Add(Shr(snowflake, RandBits + TypeBitCount), EpochMs), 0)

\* The inputs: elapsed milliseconds 0, 1, 2^21, 2^41 - 1 and 2^41, the
\* random numbers 0 and 2^19 - 1, every type id of three bits.
Elapsed ==
    {FromInt(0), FromInt(1), Shl(FromInt(1), 21),
     Sub(Shl(FromInt(1), TimeBits), FromInt(1)), Shl(FromInt(1), TimeBits)}

Times == {Time(Add(EpochMs, e), us) : e \in Elapsed, us \in {0, 999}}
RandSeqs == {0, 2 ^ RandBits - 1}
TypeIds == 0..(2 ^ TypeBitCount - 1)

CallS(op, args) ==
    /\ Record(op, args)
    /\ UNCHANGED <<relVars, postVars, idVars>>

generate(time, rand_seq, type_id) ==
    /\ Done({Compose(Now(time), rand_seq, type_id)}, "")
    /\ CallS("generate", <<time, rand_seq, type_id>>)

get_type(snowflake) ==
    /\ IF NotASnowflake(snowflake) THEN Done({}, "ValueError")
       ELSE Done({TypeOf(snowflake)}, "")
    /\ CallS("get_type", <<snowflake>>)

get_time(snowflake) ==
    /\ IF NotASnowflake(snowflake) THEN Done({}, "ValueError")
       ELSE Done({TimeOf(snowflake)}, "")
    /\ CallS("get_time", <<snowflake>>)

NextSnowflake ==
    \/ \E time \in Times, rand_seq \in RandSeqs, type_id \in TypeIds :
           generate(time, rand_seq, type_id) /\ UNCHANGED pc
    \/ \E snowflake \in result.ret :
           last.op = "generate" /\ get_type(snowflake) /\ UNCHANGED pc
    \/ \E snowflake \in result.ret :
           last.op = "generate" /\ get_time(snowflake) /\ UNCHANGED pc

SpecSnowflake == InitResolve /\ [][NextSnowflake]_vars

\* Ids generated one after another, as the default primary keys of rows
\* saved in turn: the call before and its id are kept beside the newest.
OrderTimes == {time \in Times : time.us = 0}
OrderTypeIds == {0, 2 ^ TypeBitCount - 1}

Before == pc[1]

NextSnowflakeOrder ==
    \E time \in OrderTimes, rand_seq \in RandSeqs, type_id \in OrderTypeIds :
        /\ generate(time, rand_seq, type_id)
        /\ pc' = [pc EXCEPT ![1] = [at |-> "idle", args |-> last.args,
                                    snap |-> result.ret]]

SpecSnowflakeOrder == InitResolve /\ [][NextSnowflakeOrder]_vars

\* --------------------------------------------------------------- mentions
\* create_local on a content that mentions handles.  mentions_from_content
\* calls by_username_and_domain(username, domain, fetch=True) for each handle
\* and keeps the identities returned; nothing around the call catches an
\* exception.  At most one handle of a content is unknown, so the call sends
\* at most one webfinger request, answered by reply.  One handler runs the
\* call: the resolution of the unknown handle, then the creation of the row.
MentionHandles ==
    {[username |-> "bob", domain |-> "l.example"],
     [username |-> "rob", domain |-> "r.example"]}

MentionContents == {Content("c1", H) : H \in (SUBSET MentionHandles) \ {{}}}

MentionReplies ==
    {Reply("default", "timeout", 0, "", "", "", ""),
     Reply("default", "", 404, "", "", "", ""),
     Reply("default", "", 429, "", "", "", ""),
     Reply("default", "", 200, "html", "", "", ""),
     Reply("default", "", 200, "actor", "U1", "rob", "r.example")}

\* The identities by_username_and_domain finds without a request.
Resolves(I, handle) == Matches(I, handle.username, Lower(handle.domain), FALSE)

MentionsFromContent(w, author, content, visibility) ==
    LET unknown == {h \in content.handles : Resolves(identities, h) = {}}
        known == UNION {Resolves(identities, h) : h \in content.handles}
        args == <<author, content, visibility, 0>>
    IN  /\ At(w, "idle")
        /\ IF unknown = {}
           THEN /\ CreatePost(author, content, visibility, {}, FALSE,
                              {r.pk : r \in known})
                /\ Record("create_local", args)
                /\ UNCHANGED <<pc, relVars, idVars>>
           ELSE \E h \in unknown, reply \in MentionReplies :
                    /\ Resolve(h.username, DomainName(h.domain), TRUE, FALSE,
                               {FetchWebfinger(reply)})
                    /\ IF result'.exc # ""
                       THEN pc' = pc /\ Record("create_local", args)
                       ELSE /\ pc' = [pc EXCEPT ![w] =
                                        [at |-> "create", args |-> args,
                                         snap |-> {r.pk : r \in known \cup result'.ret}]]
                            /\ UNCHANGED <<last, inbox>>
                    /\ UNCHANGED <<relVars, postVars>>

MentionsCreate(w) ==
    /\ At(w, "create")
    /\ CreatePost(pc[w].args[1], pc[w].args[2], pc[w].args[3], {}, FALSE,
                  pc[w].snap)
    /\ pc' = [pc EXCEPT ![w] = Idle]
    /\ Record("create_local", pc[w].args)
    /\ UNCHANGED <<relVars, idVars>>

NextMention ==
    \/ \E content \in MentionContents, visibility \in AskedVisibilities :
           MentionsFromContent(1, StoredIdentity.pk, content, visibility)
    \/ MentionsCreate(1)

SpecMention == InitResolve /\ [][NextMention]_vars

\* ------------------------------------------------------------ inbox queue
\* InboxMessage rows: the auto id, the JSON message and the state, whose
\* default is "received".
MaxInbox == 2
Payloads == {"ClearTimeline", "FetchPost"}

NewInboxMessageUnwrapped(pk, payload) ==
    [pk |-> pk, message |-> [type |-> "__internal__", object |-> ""],
     state |-> "received"]
NewInboxMessage(pk, payload) ==
    [pk |-> pk, message |-> [type |-> "__internal__", object |-> payload],
     state |-> "received"]

create_internal(payload) ==
    /\ Len(inbox) < MaxInbox
    /\ inbox' = Append(inbox, NewInboxMessage(Len(inbox) + 1, payload))
    /\ Done({}, "")
    /\ Log("create_internal", <<payload>>)
    /\ UNCHANGED <<relVars, postVars, idVars, pc>>

NextInbox ==
    \/ \E payload \in Payloads : create_internal(payload)
    \/ \E p \in Pairs : follow(p[1], p[2]) /\ Call("follow", p)
    \/ \E p \in Pairs : unfollow(p[1], p[2]) /\ Call("unfollow", p)
    \/ \E p \in Pairs : block(p[1], p[2]) /\ Call("block", p)

SpecInbox == InitConc /\ [][NextInbox]_vars

\* ------------------------------------------------------- follow id lists
\* The four id lists of utils.py 161-187.  Each is
\* list(Follow.objects.filter(...).values_list("target", flat=True)); the
\* list is kept as the set of its values.
FollowsFrom(F, identity_pk, state) ==
    {r \in F : r.source = identity_pk /\ r.state = state}

FollowsTo(F, identity_pk, state) ==
    {r \in F : r.target = identity_pk /\ r.state = state}

TargetValues(rows) == {r.target : r \in rows}

Query(ret) == Done(ret, "") /\ UNCHANGED relVars

get_following_ids(identity_pk) ==
    Query(TargetValues(FollowsFrom(follows, identity_pk, "accepted")))

get_follower_ids(identity_pk) ==
    Query(TargetValues(FollowsTo(follows, identity_pk, "accepted")))

get_following_request_ids(identity_pk) ==
    Query(TargetValues(FollowsFrom(follows, identity_pk, "pending_approval")))

get_requested_follower_ids(identity_pk) ==
    Query(TargetValues(FollowsTo(follows, identity_pk, "pending_approval")))

NextFollowIds ==
    \/ \E x \in Identities : get_following_ids(x) /\ Call("get_following_ids", <<x>>)
    \/ \E x \in Identities : get_follower_ids(x) /\ Call("get_follower_ids", <<x>>)
    \/ \E x \in Identities :
           get_following_request_ids(x) /\ Call("get_following_request_ids", <<x>>)
    \/ \E x \in Identities :
           get_requested_follower_ids(x) /\ Call("get_requested_follower_ids", <<x>>)

SpecFollowIds == Init /\ [][NextFollowIds]_vars

\* ------------------------------------------------------- domain registry
\* Domain rows have the primary key domain and a unique, nullable
\* service_domain ("" stands for null).
RegistryNames == {"r.example", "s.example"}
ServiceNames == {"", "r.example", "s.example", "t.example"}
FindNames == {"r.example", "R.example", "s.example", "t.example", "u.example"}

DomainRows ==
    [domain : RegistryNames, local : {FALSE}, service_domain : ServiceNames]

Registry(D) ==
    \A d1, d2 \in D :
        d1 # d2 => /\ d1.domain # d2.domain
                   /\ (d1.service_domain = "" \/ d1.service_domain # d2.service_domain)

\* Q(domain=domain.lower()) | Q(service_domain=domain.lower())
DomainOrService(D, name) ==
    {d \in D : d.domain = Lower(name) \/ d.service_domain = Lower(name)}

get_domain(name) ==
    LET rows == DomainOrService(domains, name)
    IN  /\ IF Cardinality(rows) > 1 THEN Done({}, "MultipleObjectsReturned")
           ELSE Done(rows, "")
        /\ UNCHANGED idVars

InitDomain ==
    /\ NoFollowTables /\ NoPostTables
    /\ result = NoResult /\ last = NoCall /\ inbox = <<>>
    /\ pc = [w \in Workers |-> Idle]
    /\ domains \in {D \in SUBSET DomainRows : Registry(D)}
    /\ identities = {}
    /\ nextIdentityPk = 1
    /\ net = FALSE

NextDomain ==
    \/ \E name \in FindNames : get_domain(name) /\ CallR("get_domain", <<name>>)
    \/ \E name \in FindNames :
           get_remote_domain(name) /\ CallR("get_remote_domain", <<name>>)

SpecDomain == InitDomain /\ [][NextDomain]_vars

\* ------------------------------------------------------------- properties
RowsOf(F, args) == FollowRows(F, args[1], args[2])
BlocksOf(B, args, is_mute) == BlockRows(B, args[1], args[2], is_mute)

\* C1: at most one Follow row per ordered (source, target) pair in every
\* state reached by follow, unfollow, accept, reject and block calls, also
\* interleaved; and once follow(A,B) has been called twice in a row there is
\* exactly one Follow row A -> B.
C1_OneFollowPerPair ==
    /\ \A p \in Pairs : Cardinality(FollowRows(follows, p[1], p[2])) <= 1
    /\ (last.op = "follow" /\ last.rep)
          => Cardinality(RowsOf(follows, last.args)) = 1

C1_Witness ==
    /\ last.op = "follow" /\ last.rep /\ result.exc = ""
    /\ Cardinality(RowsOf(follows, last.args)) = 1
    /\ blocks # {}

\* C2: a call update_follow_state(source, target, from_states, to_state)
\* sets the state of the Follow source -> target to to_state exactly when
\* the Follow exists, its state is in from_states (or from_states is empty)
\* and its state differs from to_state; otherwise the table is left as it
\* was; the record (or none) is returned in both cases.
C2_UpdateFollowState ==
    [][last'.op = "update_follow_state" =>
        LET a    == last'.args
            rows == FollowRows(follows, a[1], a[2])
        IN  IF /\ rows # {}
               /\ \A r \in rows : /\ (a[3] = {} \/ r.state \in a[3])
                                  /\ r.state # a[4]
            THEN /\ follows' = (follows \ rows)
                                 \cup {[r EXCEPT !.state = a[4]] : r \in rows}
                 /\ result'.ret = {[r EXCEPT !.state = a[4]] : r \in rows}
            ELSE /\ follows' = follows
                 /\ result'.ret = rows]_vars

C2_Witness ==
    /\ last.op = "update_follow_state"
    /\ last.args[3] # {}
    /\ last.args[4] \notin last.args[3]
    /\ \E r \in result.ret : r \in follows /\ r.state = last.args[4]

\* C3 as stated: after accept_follow_request(A,B) has been called twice in
\* a row on an existing Follow A -> B, that Follow is in state accepted and
\* is the only row of the pair.
C3_AcceptTwiceAccepted ==
    (last.op = "accept_follow_request" /\ last.rep /\ RowsOf(follows, last.args) # {})
        => /\ Cardinality(RowsOf(follows, last.args)) = 1
           /\ \A r \in RowsOf(follows, last.args) : r.state = "accepted"

\* C3 amended: after accept_follow_request(A,B) has been called twice in a
\* row on an existing Follow A -> B, that Follow is in state accepting and
\* is the only row of the pair.
C3_AcceptTwiceAccepting ==
    (last.op = "accept_follow_request" /\ last.rep /\ RowsOf(follows, last.args) # {})
        => /\ Cardinality(RowsOf(follows, last.args)) = 1
           /\ \A r \in RowsOf(follows, last.args) : r.state = "accepting"

C3_Witness ==
    /\ last.op = "accept_follow_request" /\ last.rep
    /\ \E r \in RowsOf(follows, last.args) : r.state = "accepting"

\* C4: follow(A,B) on a Follow A -> B in state undone adds no row, puts
\* that row in state unrequested and leaves its boosts (and its other
\* fields) as they were.
C4_FollowRevivesUndone ==
    [][last'.op = "follow" =>
        \A r \in RowsOf(follows, last'.args) :
            r.state = "undone" =>
                /\ Cardinality(follows') = Cardinality(follows)
                /\ [r EXCEPT !.state = "unrequested"] \in follows'
                /\ \A q \in RowsOf(follows', last'.args) :
                        q.pk = r.pk /\ q.boosts = r.boosts]_vars

C4_Witness ==
    /\ last.op = "follow"
    /\ \E r \in RowsOf(follows, last.args) :
            r.state = "unrequested" /\ ~r.boosts /\ r.pk < 1

\* C5: a Follow in state rejecting or undone is not moved to another state
\* by accept_follow_request or reject_follow_request.
C5_TerminalNegative ==
    [][last'.op \in {"accept_follow_request", "reject_follow_request"} =>
        \A r \in follows : r.state \in {"rejecting", "undone"} => r \in follows']_vars

\* C6: a successful block(A,B) leaves, in the step that records the active
\* block, every existing Follow A -> B in state undone and every existing
\* Follow B -> A in state rejecting.
C6_BlockTearsDown ==
    [][(last'.op = "block" /\ result'.exc = "") =>
        LET a == last'.args
        IN  /\ \E b \in BlocksOf(blocks', a, FALSE) : b.state = "new"
            /\ \A r \in FollowRows(follows, a[1], a[2]) :
                   [r EXCEPT !.state = "undone"] \in follows'
            /\ \A r \in FollowRows(follows, a[2], a[1]) :
                   [r EXCEPT !.state = "rejecting"] \in follows']_vars

C6_Witness ==
    /\ last.op = "block" /\ result.exc = ""
    /\ \E r \in FollowRows(follows, last.args[1], last.args[2]) : r.state = "undone"
    /\ \E r \in FollowRows(follows, last.args[2], last.args[1]) : r.state = "rejecting"
    /\ \E b \in BlocksOf(blocks, last.args, FALSE) : b.state = "new"

\* C7: while a full block A -> B is active, no Follow between A and B, in
\* either direction, is in an active state.
C7_NoActiveFollowUnderBlock ==
    \A b \in blocks :
        (~b.mute /\ b.state \in ActiveBlockStates) =>
            \A r \in follows :
                ({r.source, r.target} = {b.source, b.target})
                    => r.state \notin ActiveFollowStates

\* C8: mute and unmute change no Follow row and no full-block row of the
\* pair; block and unblock change no mute row of the pair.
C8_BlockMuteIndependent ==
    [][/\ last'.op \in {"mute", "unmute"} =>
            /\ follows' = follows
            /\ BlocksOf(blocks', last'.args, FALSE) = BlocksOf(blocks, last'.args, FALSE)
       /\ last'.op \in {"block", "unblock"} =>
            BlocksOf(blocks', last'.args, TRUE) = BlocksOf(blocks, last'.args, TRUE)]_vars

C8_Witness ==
    /\ last.op = "unmute"
    /\ \E b \in BlocksOf(blocks, last.args, TRUE) : b.state = "undone"
    /\ \E b \in BlocksOf(blocks, last.args, FALSE) : b.state \in ActiveBlockStates
    /\ follows # {}

\* C9: at most one Block row per (source, target, mute), also when two
\* block (or mute) calls of one triple run concurrently.
C9_OneBlockPerTriple ==
    \A p \in Pairs, is_mute \in BOOLEAN :
        Cardinality(BlockRows(blocks, p[1], p[2], is_mute)) <= 1

\* C10: every follow(A,B) call ends in success, the call that loses the
\* race for the insert included, and leaves exactly one Follow row A -> B.
C10_RacingFollowsSucceed ==
    last.op = "follow" =>
        /\ result.exc = ""
        /\ Cardinality(RowsOf(follows, last.args)) = 1

\* ------------------------------------------------------ post properties
\* The arguments of the last completed interact_post / uninteract_post call.
LastPost == last.args[1]
LastIdentity == last.args[2]
LastType == last.args[3]

\* C11: an interact_post call that repeats the previous call (same post,
\* identity and type) changes no row, no state and no stats; an
\* uninteract_post call that finds no interaction of its triple creates no
\* row and changes no interaction.
C11_ToggleIdempotent ==
    [][/\ (last'.op = "interact_post" /\ last'.rep) => UNCHANGED postVars
       /\ (/\ last'.op = "uninteract_post"
           /\ InteractionRows(interactions, last'.args[3], last'.args[2],
                              last'.args[1]) = {})
          => interactions' = interactions]_vars

\* A second interact_post in a row has returned the interaction.
C11_Witness ==
    /\ last.op = "interact_post" /\ last.rep
    /\ \E r \in result.ret : r.state = "new" /\ r \in interactions

\* Active likes of the other identities on a post, and the likes counter
\* stored on a post (the set holding it; empty when stats is null).
OtherLikes(I, post_pk, identity_pk) ==
    {r \in I : /\ r.post = post_pk /\ r.type = "like" /\ r.identity # identity_pk
               /\ r.state \in ActiveInteractionStates}

StoredLikes(P, post_pk) ==
    {d.likes : d \in UNION {r.stats : r \in PostRows(P, post_pk)}}

\* C12: on a post nobody else likes, a like by an identity that has no like
\* row on it leaves stats.likes = 1; like, like, unlike by one identity leaves
\* no active like on the post and stats.likes = 0.
C12_LikeCountsOnce ==
    [][/\ (/\ last'.op = "interact_post"
           /\ last'.args[3] = "like"
           /\ PostRows(posts, last'.args[1]) # {}
           /\ InteractionRows(interactions, "like", last'.args[2],
                              last'.args[1]) = {}
           /\ OtherLikes(interactions, last'.args[1], last'.args[2]) = {})
          => StoredLikes(posts', last'.args[1]) = {1}
       /\ (/\ last.op = "interact_post" /\ last.rep
           /\ last'.op = "uninteract_post"
           /\ last'.args = last.args
           /\ last'.args[3] = "like"
           /\ PostRows(posts, last'.args[1]) # {}
           /\ OtherLikes(interactions, last'.args[1], last'.args[2]) = {})
          => /\ StoredLikes(posts', last'.args[1]) = {0}
             /\ CountInteractions(interactions', last'.args[1], "like") = 0]_vars

\* An unlike has undone the like row created on the post written in the run.
C12_Witness ==
    /\ last.op = "uninteract_post" /\ LastType = "like"
    /\ \E r \in interactions :
           /\ r.pk > 0 /\ r.post = LastPost /\ r.identity = LastIdentity
           /\ r.type = "like" /\ r.state = "undone"
    /\ StoredLikes(posts, LastPost) = {0}

\* C13: whatever interact_post / uninteract_post calls have run one after
\* the other, no (identity, post, type) has more than one PostInteraction
\* row; an interact_post that finds the row undone sets that row back to
\* new and adds none.
C13_OneRowPerTriple ==
    /\ [](\A r1, r2 \in interactions :
             (/\ r1.identity = r2.identity /\ r1.post = r2.post
              /\ r1.type = r2.type) => r1 = r2)
    /\ [][\A r \in interactions :
             (/\ last'.op = "interact_post"
              /\ PostRows(posts, last'.args[1]) # {}
              /\ r.post = last'.args[1] /\ r.identity = last'.args[2]
              /\ r.type = last'.args[3]
              /\ r.state = "undone")
             => interactions' = (interactions \ {r}) \cup
                                {[r EXCEPT !.state = "new"]}]_vars

\* interact_post has returned the stored like, found undone, as new.
C13_Witness ==
    /\ last.op = "interact_post"
    /\ \E r \in result.ret : r.pk < 0 /\ r.state = "new" /\ r \in interactions

\* C14: when like_post calls for one (identity, post) have run at the same
\* time and all have returned, the identity has one like row on the post and
\* stats.likes counts each liking identity once.
C14_RacingLikesOneRow ==
    AllIdle =>
        \A p \in posts :
            /\ \A i \in Identities :
                   Cardinality(InteractionRows(interactions, "like", i, p.pk)) <= 1
            /\ StoredLikes(posts, p.pk) =
                   {Cardinality({i \in Identities :
                        \E r \in InteractionRows(interactions, "like", i, p.pk) :
                            r.state \in ActiveInteractionStates})}

\* C15: when like_post / unlike_post calls of different identities on a post
\* have interleaved and all have returned, the post's stats.likes is the
\* number of its like interactions in state new or fanned_out.
C15_LikesMatchAfterRace ==
    AllIdle =>
        \A p \in posts :
            StoredLikes(posts, p.pk) = {CountInteractions(interactions, p.pk, "like")}

\* C16: the post Takahe.post has just created has stats {likes: 0,
\* boosts: 0, replies: 0}, and get_post_stats returns those three counters.
C16_NewPostZeroStats ==
    last.op = "post" =>
        \A r \in result.ret :
            /\ \A q \in PostRows(posts, r.pk) : q.stats = Stats(0, 0, 0)
            /\ GetPostStats(r.pk) = Items(Stats(0, 0, 0))

\* Replies to a post that are not deleted.
LiveReplies(P, object_uri) ==
    Cardinality({q \in P : q.in_reply_to = object_uri /\ q.state # "deleted"})

\* C17: in every state reached by creating posts and replies, liking,
\* unliking and deleting, the stats stored on a post are the counts of the
\* current rows: likes and boosts the interactions in state new or
\* fanned_out, replies the replying posts that are not deleted.  (Stated for
\* the posts whose stats have been written.)
C17_StatsMatchData ==
    \A p \in posts :
        p.stats # NoStats =>
            p.stats = Stats(CountInteractions(interactions, p.pk, "like"),
                            CountInteractions(interactions, p.pk, "boost"),
                            LiveReplies(posts, p.object_uri))

\* C18: post_liked_by(post, identity) is true exactly when the identity has
\* a like on the post in state new or fanned_out; it is true after the
\* identity's like and false after its unlike, and on a post nobody else
\* likes stats.likes is then 1 and 0.
C18_LikedByMatchesLike ==
    /\ \A p \in posts, i \in Identities :
           PostLikedBy(p.pk, i) <=>
               \E r \in interactions :
                   /\ r.post = p.pk /\ r.identity = i /\ r.type = "like"
                   /\ r.state \in ActiveInteractionStates
    /\ \A i \in Identities : ~PostLikedBy(nextPostPk, i)
    /\ (/\ last.op \in {"interact_post", "uninteract_post"}
        /\ LastType = "like"
        /\ PostRows(posts, LastPost) # {})
       => /\ PostLikedBy(LastPost, LastIdentity) <=> last.op = "interact_post"
          /\ OtherLikes(interactions, LastPost, LastIdentity) = {}
             => StoredLikes(posts, LastPost) =
                    {IF PostLikedBy(LastPost, LastIdentity) THEN 1 ELSE 0}

\* A like has just been stored: the identity likes the post, counted once.
C18_Witness ==
    /\ last.op = "interact_post" /\ LastType = "like"
    /\ PostLikedBy(LastPost, LastIdentity)
    /\ StoredLikes(posts, LastPost) = {1}

\* --------------------------------------------------- resolver properties
\* The arguments of a by_username_and_domain call and the rows its lookup
\* matches in the table I.
ArgMatches(I, args) ==
    Matches(I, args[1], EffectiveDomain(args[2]), EffectiveLocal(args[2], args[4]))

\* C19: a call for a handle an Identity matches (whatever the letter case of
\* the username) returns that one Identity, the same on a repeated call,
\* sends no request and leaves the Identity and Domain tables as they were.
C19_KnownHandleResolves ==
    [][(/\ last'.op = "by_username_and_domain"
        /\ ~StartsWithAt(last'.args[1])
        /\ ArgMatches(identities, last'.args) # {})
       => /\ result'.exc = ""
          /\ Cardinality(result'.ret) = 1
          /\ result'.ret \subseteq ArgMatches(identities, last'.args)
          /\ last'.rep => result' = result
          /\ ~net'
          /\ identities' = identities /\ domains' = domains]_vars

\* C20 as stated: a call for a handle no Identity matches, with fetch false
\* or with local passed as true, returns None, sends no request and creates
\* no Identity and no Domain.
C20_MissWithoutFetch ==
    [][(/\ last'.op = "by_username_and_domain"
        /\ ~StartsWithAt(last'.args[1])
        /\ ArgMatches(identities, last'.args) = {}
        /\ (~last'.args[3] \/ last'.args[4]))
       => /\ result' = NoResult
          /\ ~net'
          /\ identities' = identities /\ domains' = domains]_vars

\* C20, amended: a call for a handle no Identity matches, with fetch false or
\* with the effective local flag true (the Domain record's own flag when a
\* record is passed, else the passed flag), returns None, sends no request
\* and creates no Identity and no Domain.
C20_MissWithoutFetchEffective ==
    [][(/\ last'.op = "by_username_and_domain"
        /\ ~StartsWithAt(last'.args[1])
        /\ ArgMatches(identities, last'.args) = {}
        /\ (~last'.args[3] \/ EffectiveLocal(last'.args[2], last'.args[4])))
       => /\ result' = NoResult
          /\ ~net'
          /\ identities' = identities /\ domains' = domains]_vars

\* A call with fetch true, restricted to local identities, has missed.
C20_Witness ==
    /\ last.op = "by_username_and_domain"
    /\ ~StartsWithAt(last.args[1])
    /\ last.args[3] /\ EffectiveLocal(last.args[2], last.args[4])
    /\ ArgMatches(identities, last.args) = {}
    /\ result = NoResult /\ ~net

\* --------------------------------------------------- discovery properties
\* The answer fetch_webfinger gave to the last by_username_and_domain call
\* of an args tuple.
AnswerOf(args) == FetchWebfinger(args[5])

\* C21: when the discovery of a call yields an actor URI no Identity has and
\* a subject that is not the handle asked for, the Identity the call creates
\* carries the subject's username and the subject's domain, whether the
\* caller gave the domain by name or as a Domain record.
C21_CreatedFromSubject ==
    [][(/\ last'.op = "by_username_and_domain"
        /\ last'.args[5] # NoReply
        /\ AnswerOf(last'.args).kind = "found"
        /\ ByUri(identities, AnswerOf(last'.args).actor_uri) = {}
        /\ \/ AnswerOf(last'.args).username # last'.args[1]
           \/ AnswerOf(last'.args).domain # EffectiveDomain(last'.args[2]))
       => \A r \in identities' \ identities :
              /\ r.username = AnswerOf(last'.args).username
              /\ r.domain = AnswerOf(last'.args).domain]_vars

\* C22: when the discovery of a call yields an actor URI an Identity already
\* has, local or remote, the call returns that Identity, no field of any
\* Identity changes and none is created.
C22_KnownActorUntouched ==
    [][(/\ last'.op = "by_username_and_domain"
        /\ last'.args[5] # NoReply
        /\ AnswerOf(last'.args).kind = "found"
        /\ \E r \in identities : r.actor_uri = AnswerOf(last'.args).actor_uri)
       => /\ result'.exc = ""
          /\ result'.ret =
                 {r \in identities : r.actor_uri = AnswerOf(last'.args).actor_uri}
          /\ identities' = identities]_vars

\* A discovery has come back with the actor URI of the local identity.
C22_Witness ==
    /\ last.op = "by_username_and_domain"
    /\ last.args[5] # NoReply
    /\ AnswerOf(last.args).kind = "found"
    /\ result.ret = {StoredIdentity}
    /\ StoredIdentity \in identities

\* The reply the network gave to the last by_username_and_domain call.
LastReply == last.args[5]

\* C23 as stated: a timeout, connection failure or certificate error of the
\* host-meta request or of the webfinger request, and a webfinger response
\* with a tolerated status, make the call return None, raise nothing and
\* create no Identity.
C23_FailureIsNotFound ==
    [][(/\ last'.op = "by_username_and_domain"
        /\ last'.args[5] # NoReply
        /\ \/ last'.args[5].hostmeta \in {"request_error", "ssl_error"}
           \/ last'.args[5].failure # ""
           \/ last'.args[5].status \in ToleratedStatuses)
       => /\ result' = NoResult
          /\ identities' = identities]_vars

\* C23, amended: a timeout, connection failure or certificate error of the
\* webfinger request, a certificate error raised by the host-meta request,
\* and a webfinger response with a tolerated status, make the call return
\* None, raise nothing and create no Identity.  (A host-meta request that
\* times out or cannot connect is followed by the webfinger request to the
\* default URL, which decides.)
C23_WebfingerFailureIsNotFound ==
    [][(/\ last'.op = "by_username_and_domain"
        /\ last'.args[5] # NoReply
        /\ \/ last'.args[5].hostmeta = "ssl_error"
           \/ last'.args[5].failure # ""
           \/ last'.args[5].status \in ToleratedStatuses)
       => /\ result' = NoResult
          /\ identities' = identities]_vars

\* A call whose webfinger request met status 410 has returned None.
C23_Witness ==
    /\ last.op = "by_username_and_domain"
    /\ LastReply # NoReply
    /\ LastReply.status = 410
    /\ net /\ result = NoResult

\* C24: a webfinger response with a 4xx or 5xx status outside the tolerated
\* set makes the call raise an error to its caller instead of returning
\* None, for the 5xx statuses as for the 4xx ones.
C24_OtherStatusRaises ==
    [][(/\ last'.op = "by_username_and_domain"
        /\ last'.args[5] # NoReply
        /\ last'.args[5].hostmeta # "ssl_error"
        /\ last'.args[5].failure = ""
        /\ last'.args[5].status >= 400
        /\ last'.args[5].status \notin ToleratedStatuses)
       => /\ result'.exc = "ValueError"
          /\ result'.ret = {}]_vars

\* C25: a 200 webfinger response whose body is not JSON, or is JSON without
\* the subject / links structure, makes the call return None and raise
\* nothing.
C25_BadBodyIsNotFound ==
    [][(/\ last'.op = "by_username_and_domain"
        /\ last'.args[5] # NoReply
        /\ last'.args[5].hostmeta # "ssl_error"
        /\ last'.args[5].failure = ""
        /\ last'.args[5].status = 200
        /\ last'.args[5].body # "actor")
       => result' = NoResult]_vars

\* C26: when resolutions of one unresolved handle run at the same time and
\* both discover the actor, there is one Identity of the actor URI afterwards
\* and every caller is returned it: no call ends in an error.
C26_RacingResolvesAgree ==
    /\ \A r1, r2 \in identities : r1.actor_uri = r2.actor_uri => r1 = r2
    /\ last.op = "by_username_and_domain" =>
           /\ result.exc = ""
           /\ result.ret \subseteq identities

\* C27: at every moment every local Identity has a key pair and no remote
\* Identity has a private key; in particular the Identity of a new account is
\* never stored without its keys.
C27_KeysFollowLocality ==
    \A r \in identities :
        IF r.local THEN r.private_key # "" /\ r.public_key # ""
        ELSE r.private_key = ""

\* C28: for an elapsed time ts with 1 <= ts < 2^41, every random number of
\* 19 bits and every type id 0..7, the generated id is below 2^63, get_type
\* of it is the type id and get_time of it is the generation time cut to its
\* millisecond, hence within 1 ms of it.
FirstMs == Add(EpochMs, FromInt(1))
EndMs == Add(EpochMs, Shl(FromInt(1), TimeBits))

InRange(time) == ~Less(time.ms, FirstMs) /\ Less(time.ms, EndMs)

C28_IdRoundTrips ==
    [][/\ (last'.op = "generate" /\ InRange(last'.args[1]))
          => /\ result'.exc = ""
             /\ \A id \in result'.ret : Less(id, Shl(FromInt(1), W - 1))
       /\ (last.op = "generate" /\ InRange(last.args[1]) /\ last'.op = "get_type")
          => result' = [ret |-> {FromInt(last.args[3])}, exc |-> ""]
       /\ (last.op = "generate" /\ InRange(last.args[1]) /\ last'.op = "get_time")
          => /\ result'.exc = ""
             /\ \A t \in result'.ret :
                    /\ t.ms = last.args[1].ms
                    /\ last.args[1].us - t.us \in 0..999
             /\ result'.ret # {}]_vars

C28_Witness ==
    /\ last.op = "get_time"
    /\ result = [ret |-> {Time(Add(EpochMs, Sub(Shl(FromInt(1), TimeBits),
                                                 FromInt(1))), 0)},
                 exc |-> ""]

\* C29: of two ids generated at times t1 < t2 the first is the smaller,
\* whatever their random numbers and type ids.
C29_LaterIdIsGreater ==
    (/\ Before.args # <<>>
     /\ last.op = "generate"
     /\ Less(Now(Before.args[1]), Now(last.args[1])))
    => \A id1 \in Before.snap, id2 \in result.ret : Less(id1, id2)

C29_Witness ==
    /\ Before.args # <<>>
     /\ last.op = "generate"
     /\ Less(Now(Before.args[1]), Now(last.args[1]))
     /\ Before.args[2] = 2 ^ RandBits - 1 /\ Before.args[3] = 2 ^ TypeBitCount - 1
     /\ last.args[2] = 0 /\ last.args[3] = 0
     /\ \E id1 \in Before.snap, id2 \in result.ret : Less(id1, id2)

\* C30: whatever the registry holds, a row of the same name that is a local
\* domain included, get_remote_domain(domain) returns without error the one
\* row of the lowercased name, and a row it creates is not local.
C30_RemoteDomainUpsert ==
    [][last'.op = "get_remote_domain"
       => /\ result'.exc = ""
          /\ result'.ret = {d \in domains' : d.domain = Lower(last'.args[1])}
          /\ Cardinality(result'.ret) = 1
          /\ \A d \in domains' \ domains : ~d.local]_vars

\* C31: get_domain(name) returns the Domain whose domain or service_domain
\* is the lowercased name, none when no Domain matches, and the Domain
\* matching by its domain when another one matches by its service_domain.
C31_FindPrefersDomain ==
    [][last'.op = "get_domain"
       => LET name == Lower(last'.args[1])
              byDomain == {d \in domains : d.domain = name}
              byService == {d \in domains : d.service_domain = name}
          IN  /\ result'.exc = ""
              /\ result'.ret = IF byDomain # {} THEN byDomain ELSE byService]_vars

\* C32: for an identity X the four lists are the targets of X's accepted
\* follows, the sources of the accepted follows to X, the targets of X's
\* pending_approval follows and the sources of the pending_approval follows
\* to X.
C32_IdListsMatchFollows ==
    [][LET x == last'.args[1]
           sources(rows) == {r.source : r \in rows}
           targets(rows) == {r.target : r \in rows}
           from(state) == {r \in follows : r.source = x /\ r.state = state}
           to(state) == {r \in follows : r.target = x /\ r.state = state}
       IN  /\ last'.op = "get_following_ids"
              => result' = [ret |-> targets(from("accepted")), exc |-> ""]
           /\ last'.op = "get_follower_ids"
              => result' = [ret |-> sources(to("accepted")), exc |-> ""]
           /\ last'.op = "get_following_request_ids"
              => result' = [ret |-> targets(from("pending_approval")), exc |-> ""]
           /\ last'.op = "get_requested_follower_ids"
              => result' = [ret |-> sources(to("pending_approval")), exc |-> ""]]_vars

\* C33: the inbox is an append-only log.  create_internal(payload) appends
\* one message of state received holding {type: __internal__, object:
\* payload}, and no call removes a message or changes one.
C33_InboxAppendOnly ==
    [][/\ Len(inbox') >= Len(inbox)
       /\ \A i \in 1..Len(inbox) : inbox'[i] = inbox[i]
       /\ IF last'.op = "create_internal" /\ inbox' # inbox
          THEN /\ Len(inbox') = Len(inbox) + 1
               /\ inbox'[Len(inbox')].state = "received"
               /\ inbox'[Len(inbox')].message =
                      [type |-> "__internal__", object |-> last'.args[1]]
          ELSE inbox' = inbox]_vars

C33_Witness ==
    /\ last.op = "create_internal"
    /\ Len(inbox) = 2
    /\ inbox[1].message.object # inbox[2].message.object

\* C35: a reply created by create_local to a parent of visibility local_only
\* is local_only whatever visibility was asked for; a reply to a parent of
\* another visibility has the visibility asked for.
C35_ReplyKeepsLocalOnly ==
    [][(last'.op = "create_local" /\ result'.exc = "")
       => \A reply \in result'.ret, parent \in posts :
              parent.pk = last'.args[4]
              => /\ reply \in posts'
                 /\ reply.in_reply_to = parent.object_uri
                 /\ reply.visibility = IF parent.visibility = "local_only"
                                       THEN "local_only" ELSE last'.args[3]]_vars

C35_Witness ==
    /\ last.op = "create_local"
    /\ last.args[3] = "public"
    /\ \E reply \in result.ret : reply \in posts /\ reply.visibility = "local_only"

\* C36: Takahe.post called with the pk of a post of the author edits that
\* post and creates none; after the edit the post is in state edited, its
\* edited timestamp is set and its scheduling fields state_next_attempt and
\* state_locked_until are cleared, whatever its state was.
C36_EditFlipsToEdited ==
    [][(/\ last'.op = "post"
        /\ \E r \in posts : r.pk = last'.args[4] /\ r.author = last'.args[1])
       => /\ {r.pk : r \in posts'} = {r.pk : r \in posts}
          /\ \A r \in posts' :
                 r.pk = last'.args[4]
                 => /\ r.state = "edited"
                    /\ r.edited
                    /\ r.content = last'.args[2]
                    /\ ~r.state_next_attempt
                    /\ ~r.state_locked_until]_vars

\* C37: a post in state deleted stays in state deleted through every later
\* call.
C37_DeletedStaysDeleted ==
    [][\A r \in posts, q \in posts' :
           (r.state = "deleted" /\ q.pk = r.pk) => q.state = "deleted"]_vars

\* C34: create_local never fails because a mentioned handle does not
\* resolve, whatever the failure: the post is created and its mentions are
\* the identities of the handles that resolved.
C34_UnresolvedMentionsDropped ==
    [][(last'.op = "create_local" /\ last' # last)
       => /\ result'.exc = ""
          /\ \E created \in result'.ret :
                 /\ created \in posts'
                 /\ created.mentions =
                        {r.pk : r \in {i \in identities' :
                                         \E h \in last'.args[2].handles :
                                             /\ i.username = h.username
                                             /\ i.domain = h.domain}}]_vars

\* C38: a like or unlike changes nothing of a post but its stats, also when
\* the post is edited or deleted while the like or unlike runs: the step that
\* completes it leaves every other field of every post as it was stored.
C38_LikeWritesOnlyStats ==
    [][last'.op \in {"interact_post", "uninteract_post"}
       => \A r \in posts, q \in posts' :
              q.pk = r.pk => [q EXCEPT !.stats = r.stats] = r]_vars


\* ------------------------------------------------------- Block.maybe_get
\* cls.objects.get(source=source, target=target, mute=mute) on the rows Q.
GetOneBlock(Q) ==
    IF Cardinality(Q) > 1 THEN Done({}, "MultipleObjectsReturned")
    ELSE Done(Q, "")

\* Block declares the column state and no field named status: the filter
\* status__in=[...] of the require_active branch raises FieldError, which the
\* except cls.DoesNotExist clause does not catch.
maybe_get(source_pk, target_pk, is_mute, require_active) ==
    /\ IF require_active
       THEN Done({}, "FieldError")
       ELSE GetOneBlock(BlockRows(blocks, source_pk, target_pk, is_mute))
    /\ UNCHANGED relVars

NextBlockGet ==
    \/ \E p \in Pairs : block(p[1], p[2]) /\ Call("block", p)
    \/ \E p \in Pairs : unblock(p[1], p[2]) /\ Call("unblock", p)
    \/ \E p \in Pairs : mute(p[1], p[2]) /\ Call("mute", p)
    \/ force_state_cycle /\ Call("_force_state_cycle", <<>>)
    \/ \E p \in Pairs, is_mute \in BOOLEAN, require_active \in BOOLEAN :
           /\ maybe_get(p[1], p[2], is_mute, require_active)
           /\ Call("maybe_get", <<p[1], p[2], is_mute, require_active>>)

SpecBlockGet == InitConc /\ [][NextBlockGet]_vars

\* C39: block() or mute() called for a pair whose Block row is active (new,
\* sent or awaiting_expiry) leaves that row as it was; a row in state sent
\* is not put back to new.
C39_ActiveBlockUntouched ==
    [][(last'.op \in {"block", "mute"} /\ result'.exc = "")
       => \A b \in BlockRows(blocks, last'.args[1], last'.args[2],
                             last'.op = "mute") :
              b.state \in ActiveBlockStates => b \in blocks']_vars

\* C40: maybe_get(source, target, mute, require_active=True) raises nothing
\* and returns the Block of the pair when it exists in state new, sent or
\* awaiting_expiry, and none otherwise.
C40_MaybeGetActive ==
    [][(last'.op = "maybe_get" /\ last'.args[4])
       => /\ result'.exc = ""
          /\ result'.ret = {b \in BlockRows(blocks, last'.args[1], last'.args[2],
                                            last'.args[3]) :
                              b.state \in ActiveBlockStates}]_vars

====
